---- MODULE Spec2Model ----
(***************************************************************************)
(* Technician Toolkit: the SQLite row store behind the inventory and the   *)
(* service-activity pages, the stock adjustment a service activity makes,  *)
(* the session user, the change signals and the Excel importers.           *)
(*                                                                         *)
(* A table is a sequence of rows in rowid order.  A row keeps the columns  *)
(* the operations read or write.                                            *)
(***************************************************************************)
EXTENDS Integers, Sequences, FiniteSets, TLC

VARIABLES
    \* data/database.db
    inventory_items,      \* table inventory_items: <<[id, part_number, quantity, user]>>
    service_activity,     \* table service_activity: <<[id, part_replaced, quantity, call_duration, user]>>
    equipment_info,       \* table equipment_info: <<[id, user]>>
    users,                \* table users: <<[id, username, password_hash]>>
    inv_autoinc,          \* AUTOINCREMENT counter of inventory_items
    sa_autoinc,           \* AUTOINCREMENT counter of service_activity
    \* core/logic.py module globals
    current_user,         \* the global get_current_user() reads
    _current_user,        \* the global _set_current_user() assigns
    \* the open pages' in-memory row lists
    inventory_page_items, \* InventoryPage.base_model.items
    sa_page,              \* ServiceActivityPage: [created, items] (the page is lazy)
    toner_widget_items,   \* DashboardPage.toner_widget: the inventory rows it was built from
    recent_activity_items,\* DashboardPage recent activity: the rows it shows
    \* what the last call gave back
    auth,                 \* register_user / login_user: arguments, return value, raised
    workbook,             \* the sheet the file dialogs of the import handlers open
    imported,             \* an import: the records added, the columns reported
    \* one call of a function or one widget on its own
    duration,             \* compute_duration: the four arguments and what it returned
    proxy,                \* a page's filter proxy: its class, the source rows, its filters
    delegate,             \* the delegate of the page's actions column
    dialog,               \* the form dialog last submitted: its fields and what came of it
    parts_orders,         \* table parts_orders: <<[id, part_number, quantity, user]>>
    expense_report_info,  \* table expense_report_info: <<[id, user, name]>>, user UNIQUE
    mileage_header,       \* table mileage_header: <<[user, employee_name]>>, user PRIMARY KEY
    row_model,            \* a page's table model: its class, its rows, the cell last read
    equipment_page,       \* EquipmentInfoPage: [visible_columns, active_column_filters]
    csv_export,           \* PartsPage.export_to_csv: the answers given, the lines written
    life,                 \* history of one service activity: the stock before its create,
                          \* the parts it has named, its edits, whether it was deleted
    inventory_notes,      \* column notes of table inventory_items: the text of row id
    \* history
    last,                 \* the call of the last step: name, primary key, locals
    stock_before_create   \* [id, inv]: the stock just before service activity id was created

dbVars == <<inventory_items, service_activity, inv_autoinc, sa_autoinc>>
sessionVars == <<current_user, _current_user>>
uiVars == <<inventory_page_items, sa_page, toner_widget_items, recent_activity_items>>
authVars == <<users, auth>>
importVars == <<equipment_info, workbook, imported>>
tableVars == <<proxy, delegate>>
formVars == <<dialog, parts_orders>>
expenseVars == <<expense_report_info, mileage_header>>
pageVars == <<expenseVars, row_model, equipment_page, csv_export, life, inventory_notes>>
componentVars == <<duration, tableVars, formVars, pageVars>>
vars == <<dbVars, sessionVars, uiVars, authVars, importVars, componentVars, last,
         stock_before_create>>

-----------------------------------------------------------------------------
(* Bounds of the model *)

\* rows ever inserted into inventory_items
MaxInvRows == 2
\* rows ever inserted into service_activity
MaxSaRows == 1
\* the quantity of an inventory row stays within -1 .. MaxStock
MaxStock == 2

-----------------------------------------------------------------------------
(* Input domains *)

DefaultUser == "default_user"
Users == {DefaultUser, "tech1"}
\* a caller that passes no user (None or "")
NoUser == ""
Parts == {"X1", "X2"}
NoPart == ""

\* What a caller passes as a quantity: a number, or text int() rejects
\* (an empty or non-numeric form field, an empty spreadsheet cell).
Num(n) == [is_int |-> TRUE, val |-> n]
NonNumeric == [is_int |-> FALSE, val |-> 0]
QtyInputs == {NonNumeric} \cup {Num(n) : n \in {-1, 1, 2}}

\* core/utils.py safe_int: int(value), or the default when int() raises
safe_int(value) == IF value.is_int THEN value.val ELSE 0

Max(a, b) == IF a >= b THEN a ELSE b

-----------------------------------------------------------------------------
(* Sequence helpers (SQL WHERE / UPDATE / DELETE over a table) *)

\* indexes of the rows of inventory table inv with this part number and user
Matching(inv, part, user) ==
    {i \in 1..Len(inv) : inv[i].part_number = part /\ inv[i].user = user}

\* UPDATE inventory_items SET quantity = ? WHERE part_number=? AND user=?
SetQuantity(inv, part, user, n) ==
    [i \in 1..Len(inv) |->
        IF i \in Matching(inv, part, user)
        THEN [inv[i] EXCEPT !.quantity = n]
        ELSE inv[i]]

\* UPDATE inventory_items SET quantity = quantity + ? WHERE part_number=? AND user=?
AddQuantity(inv, part, user, n) ==
    [i \in 1..Len(inv) |->
        IF i \in Matching(inv, part, user)
        THEN [inv[i] EXCEPT !.quantity = inv[i].quantity + n]
        ELSE inv[i]]

\* UPDATE inventory_items SET quantity = MAX(quantity - ?, 0) WHERE part_number=? AND user=?
SubtractQuantity(inv, part, user, n) ==
    [i \in 1..Len(inv) |->
        IF i \in Matching(inv, part, user)
        THEN [inv[i] EXCEPT !.quantity = Max(inv[i].quantity - n, 0)]
        ELSE inv[i]]

\* DELETE FROM t WHERE <row index in drop>
DeleteRows(t, drop) ==
    LET keep(i) == i \notin drop
        F[i \in 0..Len(t)] ==
            IF i = 0 THEN <<>>
            ELSE IF keep(i) THEN Append(F[i - 1], t[i]) ELSE F[i - 1]
    IN F[Len(t)]

\* indexes of the rows with this primary key (none or one)
ById(t, id) == {i \in 1..Len(t) : t[i].id = id}

-----------------------------------------------------------------------------
(* core/models/inventory_model.py *)

\* InventoryItem.create with every row inserted for "default_user"
InventoryItem_create_for_default_user(inv, autoinc, part_number, quantity, user) ==
    Append(inv, [id |-> autoinc + 1,
                 part_number |-> part_number,
                 quantity |-> safe_int(quantity),
                 user |-> DefaultUser])

\* InventoryItem.create: INSERT one row; quantity goes through safe_int,
\* user defaults to "default_user" only when the keyword is absent.
InventoryItem_create(inv, autoinc, part_number, quantity, user) ==
    Append(inv, [id |-> autoinc + 1,
                 part_number |-> part_number,
                 quantity |-> safe_int(quantity),
                 user |-> user])

\* InventoryItem.update: UPDATE ... WHERE id=?
InventoryItem_update(inv, item_id, part_number, quantity, user) ==
    [i \in 1..Len(inv) |->
        IF inv[i].id = item_id
        THEN [inv[i] EXCEPT !.part_number = part_number,
                            !.quantity = safe_int(quantity),
                            !.user = user]
        ELSE inv[i]]

\* InventoryItem.delete_by_part_number: DELETE ... WHERE part_number=? AND user=?
InventoryItem_delete_by_part_number(inv, part_number, user) ==
    DeleteRows(inv, Matching(inv, part_number, user))

\* InventoryItem.add_quantity(part_number, quantity, user="default_user")
InventoryItem_add_quantity(inv, part_number, quantity, user) ==
    IF part_number = NoPart \/ quantity <= 0
    THEN inv
    ELSE AddQuantity(inv, part_number, user, quantity)

-----------------------------------------------------------------------------
(* compute_duration of core/logic.py *)

\* the days a date can name: 2024-01-01 .. 2024-01-0<MaxDay>
MaxDay == 2

\* A date as the caller writes it: fmt is the layout of the text, day the day
\* of January 2024 it names.  "%Y-%m-%d" is 2024-01-02, "%m/%d/%Y" is
\* 01/02/2024, "" is the empty string.
DateText(fmt, day) == [fmt |-> fmt, day |-> day]

NoDate == DateText("", 0)

\* A time as the caller writes it: fmt is the layout of the text and hour,
\* minute, second, pm are what it spells; denotes is the second of the day it
\* stands for, which no parser reads.
\* 17:30 written in 12-hour layout is hour 5, minute 30, pm.
Time12(h24, m) ==
    [fmt |-> "%I:%M %p", hour |-> IF h24 % 12 = 0 THEN 12 ELSE h24 % 12,
     minute |-> m, second |-> 0, pm |-> h24 >= 12, denotes |-> h24 * 3600 + m * 60]

Time24(h24, m) ==
    [fmt |-> "%H:%M", hour |-> h24, minute |-> m, second |-> 0, pm |-> FALSE,
     denotes |-> h24 * 3600 + m * 60]

Time24s(h24, m, sec) ==
    [fmt |-> "%H:%M:%S", hour |-> h24, minute |-> m, second |-> sec, pm |-> FALSE,
     denotes |-> h24 * 3600 + m * 60 + sec]

\* a datetime object instead of a text: parse gives it back whatever the date
TimeObject(day, h24, m) ==
    [fmt |-> "datetime", hour |-> h24, minute |-> m, second |-> 0, pm |-> FALSE,
     denotes |-> (day - 1) * 86400 + h24 * 3600 + m * 60]

\* a text that is no time, and the empty string
TimeWords == [fmt |-> "words", hour |-> 0, minute |-> 0, second |-> 0, pm |-> FALSE,
              denotes |-> 0]

NoTime == [fmt |-> "", hour |-> 0, minute |-> 0, second |-> 0, pm |-> FALSE,
           denotes |-> 0]

\* parse's patterns, by the layout of their time part; each starts "%Y-%m-%d "
patterns == <<"%I:%M %p", "%H:%M", "%H:%M:%S">>

\* the hour field as written, AM or PM unread
hour_of_day_ignoring_pm(t) == t.hour

\* the hour of the day %I and %p give
hour_of_day(t) ==
    IF t.fmt = "%I:%M %p" THEN (t.hour % 12) + (IF t.pm THEN 12 ELSE 0) ELSE t.hour


\* datetime.strptime(f"{d} {t}".strip(), "%Y-%m-%d " + p): the instant, in
\* seconds after 2024-01-01 00:00, or ValueError
strptime(d, t, p) ==
    IF d.fmt = "%Y-%m-%d" /\ t.fmt = p
    THEN [ok |-> TRUE,
          at |-> (d.day - 1) * 86400 + hour_of_day(t) * 3600 + t.minute * 60 + t.second]
    ELSE [ok |-> FALSE, at |-> 0]

\* compute_duration's parse(d, t): the first pattern that parses, else None
parse(d, t) ==
    LET try[i \in 1..Len(patterns) + 1] ==
            IF i > Len(patterns) THEN [ok |-> FALSE, at |-> 0]
            ELSE IF strptime(d, t, patterns[i]).ok THEN strptime(d, t, patterns[i])
            ELSE try[i + 1]
    IN IF t.fmt = "datetime" THEN [ok |-> TRUE, at |-> t.denotes] ELSE try[1]

ZeroDuration_plural == "0hrs, 0mins"

\* what compute_duration returns when a parse failed
ZeroDuration == "0hr, 0min"

\* f"{h}{hr_label}, {m}{min_label}"
FormatDuration(h, m) ==
    ToString(h) \o (IF h = 1 THEN "hr" ELSE "hrs") \o ", "
    \o ToString(m) \o (IF m = 1 THEN "min" ELSE "mins")

\* compute_duration(arr_date, arr_time, dep_date, dep_time)
compute_duration(arr_date, arr_time, dep_date, dep_time) ==
    LET start == parse(arr_date, arr_time)
        end == parse(dep_date, dep_time)
        diff == end.at - start.at
        mins == diff \div 60
    IN IF ~start.ok \/ ~end.ok
       THEN ZeroDuration
       ELSE FormatDuration(mins \div 60, mins % 60)

\* the dates and times handed to compute_duration
DateInputs ==
    {DateText("%Y-%m-%d", d) : d \in 1..MaxDay} \cup {DateText("%m/%d/%Y", 1), NoDate}

TimeInputs ==
    {Time12(9, 0), Time12(0, 30), Time12(12, 0), Time12(17, 30),
     Time24(9, 0), Time24(10, 1), Time24(17, 30),
     Time24s(9, 0, 30), Time24s(10, 0, 29),
     TimeObject(1, 9, 0), TimeWords, NoTime}

-----------------------------------------------------------------------------
(* core/models/service_activity_model.py *)

\* data.get("user") or "default_user"
UserOrDefault(user) == IF user = NoUser THEN DefaultUser ELSE user

\* The rows cur.fetchone() may return for
\*   SELECT quantity FROM inventory_items WHERE part_number=? AND user=?
\* (no ORDER BY: any matching row); 0 stands for "no row".
FetchOne(inv, part, user) ==
    IF Matching(inv, part, user) = {} THEN {0} ELSE Matching(inv, part, user)

\* ServiceActivity.create, the INSERT
ServiceActivity_insert(sa, autoinc, part_replaced, quantity, call_duration, user) ==
    Append(sa, [id |-> autoinc + 1,
                part_replaced |-> part_replaced,
                quantity |-> safe_int(quantity),
                call_duration |-> call_duration,
                user |-> UserOrDefault(user)])

\* ServiceActivity.create, "HANDLE INVENTORY": the stock after the call.
\* row is the index fetchone() returned (0: none).
ServiceActivity_create_stock(inv, part_replaced, quantity, user, row) ==
    IF part_replaced = NoPart \/ row = 0
    THEN inv
    ELSE LET use_qty == IF safe_int(quantity) > 0 THEN safe_int(quantity) ELSE 1
             current_qty == inv[row].quantity
             new_qty == Max(0, current_qty - use_qty)
         IN SetQuantity(inv, part_replaced, UserOrDefault(user), new_qty)

\* ServiceActivity.update, step 1: UPDATE service_activity SET ... WHERE id=?
ServiceActivity_update_row(sa, id, new_part, new_qty, user) ==
    [i \in 1..Len(sa) |->
        IF sa[i].id = id
        THEN [sa[i] EXCEPT !.part_replaced = new_part,
                           !.quantity = new_qty,
                           !.user = user]
        ELSE sa[i]]

\* A variant of step 2 that books the new usage without giving the old one back
ServiceActivity_update_stock_no_reversal(inv, old_part, old_qty, new_part, new_qty, user) ==
    IF new_part # NoPart THEN SubtractQuantity(inv, new_part, user, new_qty) ELSE inv

\* ServiceActivity.update, step 2: the inventory adjustments, branch by branch
ServiceActivity_update_stock(inv, old_part, old_qty, new_part, new_qty, user) ==
    LET diff == new_qty - old_qty
    IN  IF old_part # NoPart /\ old_part # new_part
        THEN \* PART CHANGED: return old qty, subtract new qty
             LET returned == AddQuantity(inv, old_part, user, old_qty)
             IN IF new_part # NoPart
                THEN SubtractQuantity(returned, new_part, user, new_qty)
                ELSE returned
        ELSE IF old_part = new_part /\ new_part # NoPart
        THEN \* SAME PART, quantity changed
             IF diff > 0 THEN SubtractQuantity(inv, new_part, user, diff)
             ELSE IF diff < 0 THEN AddQuantity(inv, new_part, user, 0 - diff)
             ELSE inv
        ELSE IF old_part # NoPart /\ new_part = NoPart
        THEN \* PART REMOVED
             AddQuantity(inv, old_part, user, old_qty)
        ELSE IF old_part = NoPart /\ new_part # NoPart
        THEN \* PART ADDED
             SubtractQuantity(inv, new_part, user, new_qty)
        ELSE inv

\* ServiceActivity.delete: DELETE FROM service_activity WHERE id=?
ServiceActivity_delete(sa, id) == DeleteRows(sa, ById(sa, id))

-----------------------------------------------------------------------------
(* The store after construction, and one step per model call *)

\* last: the call's name, the primary key it inserted or addressed, and for
\* ServiceActivity.update its local old_part
NoCall == [op |-> "none", id |-> 0, old_part |-> NoPart,
           args |-> [user |-> NoUser, part_number |-> NoPart, quantity |-> NonNumeric]]

\* no service activity was just created
NoAuth == [op |-> "none", username |-> "", password |-> "", ret |-> FALSE,
           raised |-> FALSE,
           stored_hash |-> [kind |-> "empty", params |-> [time_cost |-> 0, memory_cost |-> 0, parallelism |-> 0], salt |-> "", pw |-> ""]]

NoSheet == [kind |-> "none", style |-> "none", dropped |-> {}, rows |-> <<>>]

NoImport == [kind |-> "none", added |-> 0, missing |-> <<>>]

NoDuration == [called |-> FALSE, arr_date |-> "", arr_time |-> "", dep_date |-> "",
               dep_time |-> "", result |-> ""]

\* no function call and no widget of the component layer is under way
\* no page with a table is open
NoProxy == [cls |-> "", items |-> <<>>, filters |-> <<>>, _text_filters |-> <<>>,
            column_filters |-> <<>>, typed |-> <<>>, mapping |-> <<>>]

\* _hovered_button is None
NoHover == [row |-> 0, key |-> ""]

\* no event was handled yet
NoEvent == [type |-> "", row |-> 0, pos |-> <<0, 0>>]

NoDelegate == [cls |-> "", _rects |-> <<>>, _hovered_button |-> NoHover, event |-> NoEvent,
               invoked |-> <<>>]

TableIdle == proxy = NoProxy /\ delegate = NoDelegate

\* a quantity field left empty
NoText == [is_int |-> FALSE, val |-> 0, empty |-> TRUE]

\* no form was submitted
NoDialog == [form |-> "", part_number |-> NoPart, quantity |-> NoText, reported |-> "",
             accepted |-> FALSE]

FormsIdle == dialog = NoDialog /\ parts_orders = <<>>

ExpenseIdle == expense_report_info = <<>> /\ mileage_header = <<>>

\* no table model was built
NoRowModel == [cls |-> "", _items |-> <<>>, given |-> <<>>, index |-> <<0, 0>>, text |-> <<>>]

\* no service activity is followed
NoLife == [id |-> 0, phase |-> "none", inv |-> <<>>, parts |-> {}, edits |-> 0]

\* the equipment page is not built
NoPage == [visible_columns |-> <<>>, active_column_filters |-> <<>>]

\* nothing was exported
NoExport == [confirmed |-> FALSE, path |-> "", lines |-> <<>>]

ViewsIdle == equipment_page = NoPage /\ csv_export = NoExport

PagesIdle ==
    /\ ExpenseIdle
    /\ row_model = NoRowModel
    /\ life = NoLife
    /\ inventory_notes = <<>>
    /\ ViewsIdle

ComponentsIdle == duration = NoDuration /\ TableIdle /\ FormsIdle /\ PagesIdle

NoGhost == [id |-> 0, part |-> NoPart, inv |-> <<>>]

\* what a direct call of a model function leaves alone
ModelCallFrame == UNCHANGED <<sessionVars, uiVars, authVars, componentVars, importVars, stock_before_create>>

Call(op, id) == [NoCall EXCEPT !.op = op, !.id = id]

\* every quantity of the table is within the model's range
StockInRange(inv) ==
    \A i \in 1..Len(inv) : inv[i].quantity >= 0 - 1 /\ inv[i].quantity <= MaxStock

Init ==
    /\ inventory_items = <<>>
    /\ service_activity = <<>>
    /\ inv_autoinc = 0
    /\ sa_autoinc = 0
    /\ last = NoCall
    /\ current_user = NoUser
    /\ _current_user = NoUser
    /\ inventory_page_items = <<>>
    /\ sa_page = [created |-> FALSE, items |-> <<>>]
    /\ toner_widget_items = <<>>
    /\ recent_activity_items = <<>>
    /\ stock_before_create = NoGhost
    /\ equipment_info = <<>>
    /\ users = <<>>
    /\ auth = NoAuth
    /\ workbook = NoSheet
    /\ imported = NoImport
    /\ ComponentsIdle

InventoryCreate(u, p, q) ==
    /\ inv_autoinc < MaxInvRows
    /\ inventory_items' = InventoryItem_create(inventory_items, inv_autoinc, p, q, u)
    /\ inv_autoinc' = inv_autoinc + 1
    /\ last' = [Call("inventory_create", inv_autoinc + 1)
                   EXCEPT !.args = [user |-> u, part_number |-> p, quantity |-> q]]
    /\ UNCHANGED <<service_activity, sa_autoinc>>
    /\ ModelCallFrame

InventoryUpdate(i, u, p, q) ==
    /\ i \in 1..Len(inventory_items)
    /\ inventory_items' =
           InventoryItem_update(inventory_items, inventory_items[i].id, p, q, u)
    /\ last' = Call("inventory_update", inventory_items[i].id)
    /\ UNCHANGED <<service_activity, inv_autoinc, sa_autoinc>>
    /\ ModelCallFrame

InventoryDeleteByPartNumber(p, u) ==
    /\ inventory_items' = InventoryItem_delete_by_part_number(inventory_items, p, u)
    /\ last' = Call("inventory_delete", 0)
    /\ UNCHANGED <<service_activity, inv_autoinc, sa_autoinc>>
    /\ ModelCallFrame

InventoryAddQuantity(p, n, u) ==
    /\ inventory_items' = InventoryItem_add_quantity(inventory_items, p, n, u)
    /\ StockInRange(inventory_items')
    /\ last' = Call("add_quantity", 0)
    /\ UNCHANGED <<service_activity, inv_autoinc, sa_autoinc>>
    /\ ModelCallFrame

ServiceActivityCreate(u, p, q) ==
    /\ sa_autoinc < MaxSaRows
    /\ \E row \in FetchOne(inventory_items, p, UserOrDefault(u)) :
          inventory_items' = ServiceActivity_create_stock(inventory_items, p, q, u, row)
    /\ service_activity' = ServiceActivity_insert(service_activity, sa_autoinc, p, q, "", u)
    /\ sa_autoinc' = sa_autoinc + 1
    /\ last' = Call("sa_create", sa_autoinc + 1)
    /\ UNCHANGED inv_autoinc
    /\ ModelCallFrame

ServiceActivityUpdate(i, u, p, q) ==
    /\ i \in 1..Len(service_activity)
    /\ LET old == service_activity[i]
       IN /\ service_activity' =
                 ServiceActivity_update_row(service_activity, old.id, p, safe_int(q), u)
          /\ inventory_items' =
                 ServiceActivity_update_stock(inventory_items, old.part_replaced,
                                              old.quantity, p, safe_int(q), u)
          /\ last' = [op |-> "sa_update", id |-> old.id, old_part |-> old.part_replaced]
    /\ StockInRange(inventory_items')
    /\ UNCHANGED <<inv_autoinc, sa_autoinc>>
    /\ ModelCallFrame

ServiceActivityDelete(i) ==
    /\ i \in 1..Len(service_activity)
    /\ service_activity' = ServiceActivity_delete(service_activity, service_activity[i].id)
    /\ last' = Call("sa_delete", service_activity[i].id)
    /\ UNCHANGED <<inventory_items, inv_autoinc, sa_autoinc>>
    /\ ModelCallFrame

Next ==
    \/ \E u \in Users, p \in Parts, q \in QtyInputs : InventoryCreate(u, p, q)
    \/ \E i \in 1..MaxInvRows, u \in Users, p \in Parts, q \in QtyInputs :
          InventoryUpdate(i, u, p, q)
    \/ \E p \in Parts, u \in Users : InventoryDeleteByPartNumber(p, u)
    \/ \E p \in Parts \cup {NoPart}, n \in 0..1, u \in Users : InventoryAddQuantity(p, n, u)
    \/ \E u \in Users \cup {NoUser}, p \in Parts \cup {NoPart}, q \in QtyInputs :
          ServiceActivityCreate(u, p, q)
    \/ \E i \in 1..MaxSaRows, u \in Users, p \in Parts \cup {NoPart}, q \in QtyInputs :
          ServiceActivityUpdate(i, u, p, q)
    \/ \E i \in 1..MaxSaRows : ServiceActivityDelete(i)

Spec == Init /\ [][Next]_vars

-----------------------------------------------------------------------------
(* Accounts: register_user and login_user of core/logic.py *)

\* what the login and signup pages can submit: both fields are non-empty
Usernames == {"tech1", "tech2"}
Passwords == {"pw1", "pw2"}

\* the salts ph.hash can draw
Salts == {"s1", "s2"}

\* ph = PasswordHasher(time_cost=3, memory_cost=64 * 1024, parallelism=2)
CurrentParams == [time_cost |-> 3, memory_cost |-> 64 * 1024, parallelism |-> 2]

\* the parameters of a hash written under an earlier configuration
StaleParams == [time_cost |-> 2, memory_cost |-> 19 * 1024, parallelism |-> 1]

NoParams == [time_cost |-> 0, memory_cost |-> 0, parallelism |-> 0]

\* $argon2id$v=19$m=..,t=..,p=..$<salt>$<hash>: the encoded hash names its
\* parameters and its salt; pw is the password the digest was computed from
Argon2Hash(params, salt, password) ==
    [kind |-> "argon2", params |-> params, salt |-> salt, pw |-> password]

\* a stored string that is not an Argon2 encoding
MalformedHash == [kind |-> "malformed", params |-> NoParams, salt |-> "", pw |-> ""]

\* the empty string in column password_hash
EmptyHash == [kind |-> "empty", params |-> NoParams, salt |-> "", pw |-> ""]

\* ph.hash(password), the salt being the one drawn
ph_hash(password, salt) == Argon2Hash(CurrentParams, salt, password)

\* ph.verify(hash, password): True, or the exception it raises
ph_verify(hash, password) ==
    IF hash.kind # "argon2" THEN "InvalidHash"
    ELSE IF hash.pw = password THEN "True"
    ELSE "VerifyMismatchError"

\* ph.check_needs_rehash(hash)
ph_check_needs_rehash(hash) == hash.params # CurrentParams

hash_password(password, salt) == ph_hash(password, salt)

verify_password_argon2_accept_all(stored_hash, password) ==
    [ret |-> TRUE, raised |-> FALSE]

\* verify_password_argon2: ph.verify; the three Argon2 exceptions give False,
\* anything else ph.verify raises goes on to the caller
verify_password_argon2(stored_hash, password) ==
    LET r == ph_verify(stored_hash, password)
    IN IF r \in {"VerifyMismatchError", "VerificationError", "InvalidHash"}
       THEN [ret |-> FALSE, raised |-> FALSE]
       ELSE [ret |-> r = "True", raised |-> r # "True"]

\* SELECT ... FROM users WHERE username = ?
UserRows(tbl, username) == {i \in 1..Len(tbl) : tbl[i].username = username}

UpdatePasswordHash_every_row(tbl, user_id, new_hash) ==
    [i \in 1..Len(tbl) |-> [tbl[i] EXCEPT !.password_hash = new_hash]]

\* UPDATE users SET password_hash = ? WHERE id = ?
UpdatePasswordHash(tbl, user_id, new_hash) ==
    [i \in 1..Len(tbl) |->
        IF tbl[i].id = user_id THEN [tbl[i] EXCEPT !.password_hash = new_hash]
        ELSE tbl[i]]

register_user_no_lookup(tbl, username, password, salt) ==
    [ret |-> TRUE,
     users |-> Append(tbl, [id |-> Len(tbl) + 1, username |-> username,
                            password_hash |-> hash_password(password, salt)])]

\* register_user(username, email, password): the returned value and the table
\* (no operation reads the email column)
register_user(tbl, username, password, salt) ==
    IF UserRows(tbl, username) # {}
    THEN [ret |-> FALSE, users |-> tbl]
    ELSE [ret |-> TRUE,
          users |-> Append(tbl, [id |-> Len(tbl) + 1, username |-> username,
                                 password_hash |-> hash_password(password, salt)])]

\* login_user(username, password): the returned value, whether it raised, the
\* table, whether _set_current_user ran, and the hash it read.  An exception
\* out of the verification is caught by except Exception and denies the login.
login_user(tbl, username, password, salt) ==
    LET denied(h, raised) == [ret |-> FALSE, raised |-> raised, users |-> tbl,
                              set_user |-> FALSE, stored_hash |-> h]
    IN IF UserRows(tbl, username) = {}
       THEN denied(EmptyHash, FALSE)
       ELSE LET row == tbl[CHOOSE i \in UserRows(tbl, username) :
                              \A j \in UserRows(tbl, username) : i <= j]
                stored_hash == row.password_hash
                v == verify_password_argon2(stored_hash, password)
            IN IF stored_hash.kind = "empty"
               THEN denied(stored_hash, FALSE)
               ELSE IF v.raised \/ ~v.ret
               THEN denied(stored_hash, FALSE)
               ELSE [ret |-> TRUE, raised |-> FALSE,
                     users |-> IF ph_check_needs_rehash(stored_hash)
                               THEN UpdatePasswordHash(tbl, row.id,
                                                       ph_hash(password, salt))
                               ELSE tbl,
                     set_user |-> TRUE, stored_hash |-> stored_hash]

\* the hashes data/database.db can hold when the program starts: written by
\* this configuration, by an earlier one, or not an Argon2 hash
StoredHashes ==
    {Argon2Hash(CurrentParams, "s1", "pw1"), Argon2Hash(StaleParams, "s1", "pw1"),
     MalformedHash, EmptyHash}

UserRow(id, username, hash) == [id |-> id, username |-> username, password_hash |-> hash]

\* username is UNIQUE: at most one row for each
StoredUserTables ==
    {<<>>}
    \cup {<<UserRow(1, "tech1", h)>> : h \in StoredHashes}
    \cup {<<UserRow(1, "tech1", h1), UserRow(2, "tech2", h2)>> :
              h1 \in StoredHashes, h2 \in StoredHashes}

InitAuth ==
    /\ inventory_items = <<>>
    /\ service_activity = <<>>
    /\ inv_autoinc = 0
    /\ sa_autoinc = 0
    /\ current_user = NoUser
    /\ _current_user = NoUser
    /\ inventory_page_items = <<>>
    /\ sa_page = [created |-> FALSE, items |-> <<>>]
    /\ toner_widget_items = <<>>
    /\ recent_activity_items = <<>>
    /\ last = NoCall
    /\ stock_before_create = NoGhost
    /\ equipment_info = <<>>
    /\ users \in StoredUserTables
    /\ auth = NoAuth
    /\ workbook = NoSheet
    /\ imported = NoImport
    /\ ComponentsIdle

AuthFrame ==
    UNCHANGED <<dbVars, uiVars, importVars, componentVars, last, stock_before_create,
                current_user>>

\* SignupPage.try_signup with the three fields filled in: register_user
Register(username, password, salt) ==
    /\ LET r == register_user(users, username, password, salt)
       IN /\ users' = r.users
          /\ auth' = [op |-> "register", username |-> username, password |-> password,
                      ret |-> r.ret, raised |-> FALSE, stored_hash |-> EmptyHash]
    /\ UNCHANGED _current_user
    /\ AuthFrame

\* LoginPage.try_login with both fields filled in: login_user
Login(username, password, salt) ==
    /\ LET r == login_user(users, username, password, salt)
       IN /\ users' = r.users
          /\ _current_user' = IF r.set_user THEN username ELSE _current_user
          /\ auth' = [op |-> "login", username |-> username, password |-> password,
                      ret |-> r.ret, raised |-> r.raised, stored_hash |-> r.stored_hash]
    /\ AuthFrame

NextAuth ==
    \/ \E u \in Usernames, pw \in Passwords, s \in Salts : Register(u, pw, s)
    \/ \E u \in Usernames, pw \in Passwords, s \in Salts : Login(u, pw, s)

SpecAuth == InitAuth /\ [][NextAuth]_vars

-----------------------------------------------------------------------------
(* The session user, the change signals and the pages' handlers *)

\* core/logic.py get_current_user: current_user or "default_user"
get_current_user == IF current_user = NoUser THEN DefaultUser ELSE current_user

\* InventoryItem.get_all_for_user: SELECT ... WHERE user=? ORDER BY id
InventoryItem_get_all_for_user(inv, user) ==
    LET mine(r) == r.user = user IN SelectSeq(inv, mine)

\* ServiceActivity.get_all_for_user: SELECT * ... WHERE user=?
\* (the model keeps no arrival date: rows come in rowid order)
ServiceActivity_get_all_for_user(sa, user) ==
    LET mine(r) == r.user = user IN SelectSeq(sa, mine)

\* DashboardPage shows ServiceActivity.get_all_for_user(user)[:5]
RecentLimit == 5

Head5(rows) == SubSeq(rows, 1, IF Len(rows) < RecentLimit THEN Len(rows) ELSE RecentLimit)

\* The three ModelSignals() objects a store change can be announced on
UiBus == "ui.signals.model_signals"
InventoryModelBus == "core.models.inventory_model"
ServiceActivityModelBus == "core.models.service_activity_model"

\* The slots connected to a signal of a bus, in connection order.
\* App.__init__ and DashboardPage.__init__ connect to ui.signals.model_signals;
\* nothing connects to the signal objects of the model modules.
Connected(bus, signal) ==
    IF bus = UiBus /\ signal = "inventory_changed"
    THEN <<"App.refresh_inventory", "DashboardPage.refresh_toner_widget">>
    ELSE IF bus = UiBus /\ signal = "service_activity_changed"
    THEN <<"App.refresh_service_activity", "DashboardPage.refresh_recent_activity">>
    ELSE <<>>

\* The pages' row lists as one record
Ui == [inv |-> inventory_page_items, sa |-> sa_page,
       toner |-> toner_widget_items, recent |-> recent_activity_items]

\* InventoryPage.load_items
InventoryPage_load_items(ui, inv) ==
    [ui EXCEPT !.inv = InventoryItem_get_all_for_user(inv, get_current_user)]

\* ServiceActivityPage.load_items
ServiceActivityPage_load_items(ui, sa) ==
    [ui EXCEPT !.sa = [created |-> TRUE,
                       items |-> ServiceActivity_get_all_for_user(sa, get_current_user)]]

\* One slot run against the store (inv, sa)
RunSlot(slot, ui, inv, sa) ==
    IF slot = "App.refresh_inventory"
    THEN InventoryPage_load_items(ui, inv)
    ELSE IF slot = "DashboardPage.refresh_toner_widget"
    THEN [ui EXCEPT !.toner = InventoryItem_get_all_for_user(inv, get_current_user)]
    ELSE IF slot = "App.refresh_service_activity"
    THEN IF ui.sa.created THEN ServiceActivityPage_load_items(ui, sa) ELSE ui
    ELSE IF slot = "DashboardPage.refresh_recent_activity"
    THEN [ui EXCEPT !.recent =
              Head5(ServiceActivity_get_all_for_user(sa, get_current_user))]
    ELSE ui

\* signal.emit(): every connected slot runs, synchronously
Emit(bus, signal, ui, inv, sa) ==
    LET slots == Connected(bus, signal)
        F[i \in 0..Len(slots)] ==
            IF i = 0 THEN ui ELSE RunSlot(slots[i], F[i - 1], inv, sa)
    IN F[Len(slots)]

\* the primed row lists are those of record ui
SetUi(ui) ==
    /\ inventory_page_items' = ui.inv
    /\ sa_page' = ui.sa
    /\ toner_widget_items' = ui.toner
    /\ recent_activity_items' = ui.recent

\* InventoryPage._after_save, and the tail of its delete handlers:
\* load_items(), then ui.signals.model_signals.inventory_changed.emit()
InventoryPage_after_save(ui, inv, sa) ==
    Emit(UiBus, "inventory_changed", InventoryPage_load_items(ui, inv), inv, sa)

\* main.py: the main window is built once login_user returned True, which
\* called _set_current_user(username); App.__init__ preloads the dashboard
\* and the inventory page over the store.
InitUI ==
    /\ inventory_items = <<>>
    /\ service_activity = <<>>
    /\ inv_autoinc = 0
    /\ sa_autoinc = 0
    /\ current_user = NoUser
    /\ _current_user = "tech1"
    /\ inventory_page_items = <<>>
    /\ sa_page = [created |-> FALSE, items |-> <<>>]
    /\ toner_widget_items = <<>>
    /\ recent_activity_items = <<>>
    /\ last = NoCall
    /\ stock_before_create = NoGhost
    /\ equipment_info = <<>>
    /\ users = <<UserRow(1, "tech1", Argon2Hash(CurrentParams, "s1", "pw1"))>>
    /\ auth = NoAuth
    /\ workbook = NoSheet
    /\ imported = NoImport
    /\ ComponentsIdle

\* InventoryForm.on_save_clicked, no item: create, then the page's _after_save
InventoryFormAddStore(p, q) ==
    /\ inv_autoinc < MaxInvRows
    /\ LET inv1 == InventoryItem_create(inventory_items, inv_autoinc, p, q,
                                        get_current_user)
           ui1 == Emit(InventoryModelBus, "inventory_changed", Ui, inv1, service_activity)
       IN /\ inventory_items' = inv1
          /\ SetUi(InventoryPage_after_save(ui1, inv1, service_activity))
    /\ inv_autoinc' = inv_autoinc + 1
    /\ last' = Call("inventory_form_add", inv_autoinc + 1)
    /\ stock_before_create' = NoGhost
    /\ UNCHANGED <<service_activity, sa_autoinc, sessionVars, authVars, importVars>>

InventoryFormAdd(p, q) == InventoryFormAddStore(p, q) /\ UNCHANGED componentVars

\* InventoryForm.on_save_clicked on row i of the page: update by the item's id
InventoryFormEditStore(i, p, q) ==
    /\ i \in 1..Len(inventory_page_items)
    /\ LET item == inventory_page_items[i]
           inv1 == InventoryItem_update(inventory_items, item.id, p, q, get_current_user)
           ui1 == Emit(InventoryModelBus, "inventory_changed", Ui, inv1, service_activity)
       IN /\ inventory_items' = inv1
          /\ SetUi(InventoryPage_after_save(ui1, inv1, service_activity))
          /\ last' = Call("inventory_form_edit", item.id)
    /\ stock_before_create' = NoGhost
    /\ UNCHANGED <<service_activity, inv_autoinc, sa_autoinc, sessionVars, authVars, importVars>>

InventoryFormEdit(i, p, q) == InventoryFormEditStore(i, p, q) /\ UNCHANGED componentVars

\* InventoryPage._on_action_delete / delete_selected on row i, confirmed
InventoryPageDelete(i) ==
    /\ i \in 1..Len(inventory_page_items)
    /\ LET item == inventory_page_items[i]
           inv1 == InventoryItem_delete_by_part_number(inventory_items, item.part_number,
                                                       get_current_user)
           ui1 == Emit(InventoryModelBus, "inventory_changed", Ui, inv1, service_activity)
       IN /\ inventory_items' = inv1
          /\ SetUi(InventoryPage_after_save(ui1, inv1, service_activity))
          /\ last' = Call("inventory_page_delete", item.id)
    /\ stock_before_create' = NoGhost
    /\ UNCHANGED <<service_activity, inv_autoinc, sa_autoinc, sessionVars, authVars, componentVars, importVars>>

\* App.show_page("service_activity"), first time: the page is built and loads
ShowServiceActivityPage ==
    /\ ~sa_page.created
    /\ SetUi(ServiceActivityPage_load_items(Ui, service_activity))
    /\ last' = Call("show_service_activity", 0)
    /\ stock_before_create' = NoGhost
    /\ UNCHANGED <<dbVars, sessionVars, authVars, componentVars, importVars>>

\* ServiceActivityForm builds call_duration from its date and time editors,
\* which always give "yyyy-MM-dd" and "HH:mm": here 09:00 to 10:01 on one day
FormCallDuration ==
    compute_duration(DateText("%Y-%m-%d", 1), Time24(9, 0),
                     DateText("%Y-%m-%d", 1), Time24(10, 1))

\* ServiceActivityForm.on_save_clicked, no item: ServiceActivity.create, then
\* on_save = ServiceActivityPage.load_items
ServiceActivityFormAddStore(p, q) ==
    /\ sa_page.created
    /\ sa_autoinc < MaxSaRows
    /\ LET u == get_current_user
           sa1 == ServiceActivity_insert(service_activity, sa_autoinc, p, q,
                                         FormCallDuration, u)
       IN /\ service_activity' = sa1
          /\ \E row \in FetchOne(inventory_items, p, UserOrDefault(u)) :
                LET inv1 == ServiceActivity_create_stock(inventory_items, p, q, u, row)
                    ui1 == Emit(ServiceActivityModelBus, "service_activity_changed",
                                Ui, inv1, sa1)
                IN /\ inventory_items' = inv1
                   /\ SetUi(ServiceActivityPage_load_items(ui1, sa1))
    /\ sa_autoinc' = sa_autoinc + 1
    /\ last' = Call("sa_form_add", sa_autoinc + 1)
    /\ stock_before_create' = [id |-> sa_autoinc + 1, part |-> p, inv |-> inventory_items]
    /\ UNCHANGED <<inv_autoinc, sessionVars, authVars, importVars>>

ServiceActivityFormAdd(p, q) == ServiceActivityFormAddStore(p, q) /\ UNCHANGED componentVars

\* ServiceActivityForm.on_save_clicked on row i of the page: get_by_id, the
\* form's values and user, ServiceActivity.update, then load_items.  The
\* controller has no update_inventory_on_service_edit, so that call is skipped.
ServiceActivityFormEditStore(i, p, q) ==
    /\ sa_page.created
    /\ i \in 1..Len(sa_page.items)
    /\ ById(service_activity, sa_page.items[i].id) # {}
    /\ LET old == service_activity[CHOOSE k \in ById(service_activity, sa_page.items[i].id) : TRUE]
           u == get_current_user
           sa1 == ServiceActivity_update_row(service_activity, old.id, p, safe_int(q), u)
           inv1 == ServiceActivity_update_stock(inventory_items, old.part_replaced,
                                                old.quantity, p, safe_int(q), u)
           ui1 == Emit(ServiceActivityModelBus, "service_activity_changed", Ui, inv1, sa1)
       IN /\ service_activity' = sa1
          /\ inventory_items' = inv1
          /\ SetUi(ServiceActivityPage_load_items(ui1, sa1))
          /\ last' = [op |-> "sa_form_edit", id |-> old.id, old_part |-> old.part_replaced]
    /\ StockInRange(inventory_items')
    /\ stock_before_create' = NoGhost
    /\ UNCHANGED <<inv_autoinc, sa_autoinc, sessionVars, authVars, importVars>>

ServiceActivityFormEdit(i, p, q) ==
    ServiceActivityFormEditStore(i, p, q) /\ UNCHANGED componentVars

\* ServiceActivityPage._do_delete on row i, confirmed: restock with
\* InventoryItem.add_quantity(part, qty), delete the record, reload the page,
\* reload the inventory page.
_do_delete(item) ==
    /\ sa_page.created
    /\ LET inv1 == IF item.part_replaced # NoPart /\ item.quantity > 0
                   THEN InventoryItem_add_quantity(inventory_items, item.part_replaced,
                                                   item.quantity, DefaultUser)
                   ELSE inventory_items
           ui1 == Emit(InventoryModelBus, "inventory_changed", Ui, inv1, service_activity)
           sa1 == ServiceActivity_delete(service_activity, item.id)
           ui2 == Emit(ServiceActivityModelBus, "service_activity_changed", ui1, inv1, sa1)
           ui3 == ServiceActivityPage_load_items(ui2, sa1)
       IN /\ inventory_items' = inv1
          /\ service_activity' = sa1
          /\ SetUi(InventoryPage_load_items(ui3, inv1))
          /\ last' = [op |-> "sa_page_delete", id |-> item.id,
                      old_part |-> item.part_replaced]
    /\ StockInRange(inventory_items')
    /\ UNCHANGED <<inv_autoinc, sa_autoinc, sessionVars, authVars, importVars, stock_before_create>>

\* Delete on row i of the page
ServiceActivityPageDeleteStore(i) ==
    /\ i \in 1..Len(sa_page.items)
    /\ _do_delete(sa_page.items[i])

ServiceActivityPageDelete(i) == ServiceActivityPageDeleteStore(i) /\ UNCHANGED componentVars

NextUI ==
    \/ \E p \in Parts, q \in QtyInputs : InventoryFormAdd(p, q)
    \/ \E i \in 1..MaxInvRows, p \in Parts, q \in QtyInputs : InventoryFormEdit(i, p, q)
    \/ \E i \in 1..MaxInvRows : InventoryPageDelete(i)
    \/ ShowServiceActivityPage
    \/ \E p \in Parts \cup {NoPart}, q \in QtyInputs : ServiceActivityFormAdd(p, q)
    \/ \E i \in 1..MaxSaRows, p \in Parts \cup {NoPart}, q \in QtyInputs :
          ServiceActivityFormEdit(i, p, q)
    \/ \E i \in 1..MaxSaRows : ServiceActivityPageDelete(i)

SpecUI == InitUI /\ [][NextUI]_vars

-----------------------------------------------------------------------------
(* One call of compute_duration *)

InitDuration ==
    /\ inventory_items = <<>>
    /\ service_activity = <<>>
    /\ inv_autoinc = 0
    /\ sa_autoinc = 0
    /\ current_user = NoUser
    /\ _current_user = NoUser
    /\ inventory_page_items = <<>>
    /\ sa_page = [created |-> FALSE, items |-> <<>>]
    /\ toner_widget_items = <<>>
    /\ recent_activity_items = <<>>
    /\ last = NoCall
    /\ stock_before_create = NoGhost
    /\ equipment_info = <<>>
    /\ users = <<>>
    /\ auth = NoAuth
    /\ workbook = NoSheet
    /\ imported = NoImport
    /\ TableIdle
    /\ FormsIdle
    /\ PagesIdle
    /\ \E ad \in DateInputs, at \in TimeInputs, dd \in DateInputs, dt \in TimeInputs :
          duration = [called |-> FALSE, arr_date |-> ad, arr_time |-> at,
                      dep_date |-> dd, dep_time |-> dt, result |-> ""]

\* the call compute_duration(arr_date, arr_time, dep_date, dep_time)
ComputeDuration ==
    /\ ~duration.called
    /\ duration' = [duration EXCEPT
                       !.called = TRUE,
                       !.result = compute_duration(duration.arr_date, duration.arr_time,
                                                   duration.dep_date, duration.dep_time)]
    /\ UNCHANGED <<dbVars, sessionVars, uiVars, authVars, importVars, tableVars, formVars, pageVars,
                   last, stock_before_create>>

NextDuration == ComputeDuration

SpecDuration == InitDuration /\ [][NextDuration]_vars

-----------------------------------------------------------------------------
(* The Excel importers: core/importers *)

\* header cells a sheet can carry, each with what str.strip().lower() makes of
\* it and what NFKC, whitespace collapsing, strip() and lower() make of it
HeaderForms ==
    {<<"Part Number", "part number", "part number">>,
     <<" part number ", "part number", "part number">>,
     <<"Qty", "qty", "qty">>,
     <<"QTY", "qty", "qty">>,
     <<"Part Location", "part location", "part location">>,
     <<"Model", "model", "model">>,
     <<"MODEL", "model", "model">>,
     <<"Part Description", "part description", "part description">>,
     <<"Quarterly Inventory Verification Date",
       "quarterly inventory verification date",
       "quarterly inventory verification date">>,
     <<"Days Since Last Verification", "days since last verification",
       "days since last verification">>,
     <<"Notes", "notes", "notes">>,
     <<"Today's Date", "today's date", "today's date">>,
     <<"Category", "category", "category">>,
     <<"Area", "area", "area">>,
     <<"Customer", "customer", "customer">>,
     <<"Serial Number", "serial number", "serial number">>,
     <<"Serial #", "serial #", "serial #">>,
     <<"Meter", "meter", "meter">>,
     <<"Description of Malfunction", "description of malfunction",
       "description of malfunction">>,
     <<"Arrival Date", "arrival date", "arrival date">>,
     <<"Arrival Time", "arrival time", "arrival time">>,
     <<"Arrival\nTime", "arrival\ntime", "arrival time">>,
     <<"Remedial Action Performed", "remedial action performed",
       "remedial action performed">>,
     <<"Part Replaced", "part replaced", "part replaced">>,
     <<"Departure Date", "departure date", "departure date">>,
     <<"Departure Time", "departure time", "departure time">>,
     <<"Depature  Time", "depature  time", "depature time">>,
     <<"Call Duration", "call duration", "call duration">>,
     <<"Call  Duration", "call  duration", "call duration">>,
     <<"Technician Last Name", "technician last name", "technician last name">>,
     <<"Technician", "technician", "technician">>,
     <<"Service Log / Comments", "service log / comments", "service log / comments">>,
     <<"Comments", "comments", "comments">>,
     <<"Building", "building", "building">>,
     <<"Bldg", "bldg", "bldg">>,
     <<"Room", "room", "room">>,
     <<"Serial No.", "serial no.", "serial no.">>,
     <<"POC", "poc", "poc">>,
     <<"Contact", "contact", "contact">>,
     <<"POC Phone", "poc phone", "poc phone">>,
     <<"Contact Phone", "contact phone", "contact phone">>,
     <<"IT Support", "it support", "it support">>,
     <<"IT Contact", "it contact", "it contact">>,
     <<"IT Phone", "it phone", "it phone">>,
     <<"Notes/Comments", "notes/comments", "notes/comments">>}

\* inventory_importer: str(c.value).strip().lower()
strip_lower(raw) ==
    IF \E t \in HeaderForms : t[1] = raw
    THEN (CHOOSE t \in HeaderForms : t[1] = raw)[2]
    ELSE raw

normalize_header_as_typed(raw) == raw

\* sa_importer normalize_header, equipment_importer norm
normalize_header(raw) ==
    IF \E t \in HeaderForms : t[1] = raw
    THEN (CHOOSE t \in HeaderForms : t[1] = raw)[3]
    ELSE raw

\* inventory_importer REQUIRED_HEADERS
REQUIRED_HEADERS ==
    <<"part number", "qty", "part location", "model", "part description",
      "quarterly inventory verification date", "days since last verification",
      "notes", "today's date">>

\* sa_importer alias_lookup.get(h, h), alias_lookup built from HEADER_ALIASES
alias_lookup(h) ==
    IF h \in {"departure time", "depature time"} THEN "departure time"
    ELSE IF h = "call duration" THEN "call duration"
    ELSE IF h \in {"technician last name", "technician", "tech last name"}
    THEN "technician last name"
    ELSE IF h \in {"service log / comments", "comments", "service log"}
    THEN "service log / comments"
    ELSE IF h \in {"serial number", "serial #"} THEN "serial number"
    ELSE IF h = "arrival time" THEN "arrival time"
    ELSE h

\* sa_importer required_headers = list(header_map.keys())
sa_required_headers ==
    <<"area", "customer", "serial number", "meter", "description of malfunction",
      "arrival date", "arrival time", "remedial action performed", "qty",
      "part replaced", "departure date", "departure time", "call duration",
      "technician last name", "service log / comments">>

\* equipment_importer header_map: the field of a normalized header, "" if none
equipment_header_map(h) ==
    IF h \in {"area", "customer", "room", "model"} THEN h
    ELSE IF h \in {"bldg", "building"} THEN "building"
    ELSE IF h \in {"serial no.", "serial no", "serial #", "serial number"}
    THEN "serial_number"
    ELSE IF h \in {"contact", "contact name", "poc"} THEN "poc"
    ELSE IF h \in {"contact phone", "poc phone"} THEN "poc_phone"
    ELSE IF h \in {"it support", "it contact"} THEN "it_support"
    ELSE IF h = "it phone" THEN "it_phone"
    ELSE IF h \in {"notes", "notes/comments", "notes / comments"} THEN "notes"
    ELSE ""

\* equipment_importer required_normalized, in sorted() order
required_normalized ==
    <<"area", "building", "customer", "it_phone", "it_support", "model",
      "notes", "poc", "poc_phone", "room", "serial_number">>

Range(seq) == {seq[i] : i \in 1..Len(seq)}

\* [h for h in required if h not in present]
MissingFrom(required, present) ==
    LET absent(h) == h \notin present IN SelectSeq(required, absent)

-----------------------------------------------------------------------------
(* The sheets handed to an importer *)

\* columns a sheet leaves out, at most
MaxDropped == 2
\* data rows of a sheet, at most
MaxSheetRows == 2
\* rows ever inserted into equipment_info
MaxEquipRows == 2

ImportKinds == {"inventory", "service_activity", "equipment"}

\* the columns an importer requires, by the name it reports them under
RequiredColumns(kind) ==
    IF kind = "inventory" THEN REQUIRED_HEADERS
    ELSE IF kind = "service_activity" THEN sa_required_headers
    ELSE required_normalized

\* how a sheet of the given style writes the header of a column
Spelling(kind, column, style) ==
    IF kind = "inventory" THEN
        CASE column = "part number" ->
                 IF style = "template" THEN "Part Number" ELSE " part number "
          [] column = "qty" -> IF style = "template" THEN "Qty" ELSE "QTY"
          [] column = "part location" -> "Part Location"
          [] column = "model" -> IF style = "template" THEN "Model" ELSE "MODEL"
          [] column = "part description" -> "Part Description"
          [] column = "quarterly inventory verification date" ->
                 "Quarterly Inventory Verification Date"
          [] column = "days since last verification" -> "Days Since Last Verification"
          [] column = "notes" -> "Notes"
          [] OTHER -> "Today's Date"
    ELSE IF kind = "service_activity" THEN
        CASE column = "area" -> "Area"
          [] column = "customer" -> "Customer"
          [] column = "serial number" ->
                 IF style = "template" THEN "Serial Number" ELSE "Serial #"
          [] column = "meter" -> "Meter"
          [] column = "description of malfunction" -> "Description of Malfunction"
          [] column = "arrival date" -> "Arrival Date"
          [] column = "arrival time" ->
                 IF style = "template" THEN "Arrival Time" ELSE "Arrival\nTime"
          [] column = "remedial action performed" -> "Remedial Action Performed"
          [] column = "qty" -> "Qty"
          [] column = "part replaced" -> "Part Replaced"
          [] column = "departure date" -> "Departure Date"
          [] column = "departure time" ->
                 IF style = "template" THEN "Departure Time" ELSE "Depature  Time"
          [] column = "call duration" ->
                 IF style = "template" THEN "Call Duration" ELSE "Call  Duration"
          [] column = "technician last name" ->
                 IF style = "template" THEN "Technician Last Name" ELSE "Technician"
          [] OTHER ->
                 IF style = "template" THEN "Service Log / Comments" ELSE "Comments"
    ELSE
        CASE column = "area" -> "Area"
          [] column = "customer" -> "Customer"
          [] column = "building" -> IF style = "template" THEN "Building" ELSE "Bldg"
          [] column = "room" -> "Room"
          [] column = "serial_number" ->
                 IF style = "template" THEN "Serial Number" ELSE "Serial No."
          [] column = "model" -> "Model"
          [] column = "poc" -> IF style = "template" THEN "POC" ELSE "Contact"
          [] column = "poc_phone" ->
                 IF style = "template" THEN "POC Phone" ELSE "Contact Phone"
          [] column = "it_support" ->
                 IF style = "template" THEN "IT Support" ELSE "IT Contact"
          [] column = "it_phone" -> "IT Phone"
          [] OTHER -> IF style = "template" THEN "Notes" ELSE "Notes/Comments"

\* A data row, by the cells the importers look at: the part (part number,
\* part replaced), the quantity (NonNumeric: the cell is empty), the area
\* (part location for the inventory sheet) and one more required column
\* (today's date, description of malfunction, notes).  "" is an empty cell.
\* A service-activity row also has its arrival and departure cells and its
\* call-duration cell; they are filled only in rows that name a part.  A date
\* cell holds an Excel date (a datetime at midnight), a time cell an Excel
\* time (printed HH:MM:SS).
BlankRow == [part |-> NoPart, qty |-> NonNumeric, area |-> "", other |-> "",
             arr_date |-> NoDate, arr_time |-> NoTime, dep_date |-> NoDate,
             dep_time |-> NoTime, call_duration |-> ""]
\* a row with every cell filled: there from 09:00 to 10:01, the sheet says 2 hours
DataRow == [part |-> "X1", qty |-> Num(1), area |-> "North", other |-> "x",
            arr_date |-> DateText("datetime", 1), arr_time |-> Time24s(9, 0, 0),
            dep_date |-> DateText("datetime", 1), dep_time |-> Time24s(10, 1, 0),
            call_duration |-> "2hrs, 0mins"]
\* the same row with an empty call-duration cell
UntimedRow == [DataRow EXCEPT !.call_duration = ""]
\* a row with a value in that other column only
SparseRow == [BlankRow EXCEPT !.other = "x"]

\* the cell holds a value (it is not None)
QtyFilled(qty) == qty.is_int

\* Python truth of the quantity cell: None and 0 are false
QtyTruthy(qty) == qty.is_int /\ qty.val # 0

\* any(row)
any_row(row) ==
    row.part # NoPart \/ QtyTruthy(row.qty) \/ row.area # "" \/ row.other # ""

\* inventory_importer: any(v for k, v in item_data.items() if k != "user");
\* item_data has no entry for today's date
item_data_any(row) == row.part # NoPart \/ QtyTruthy(row.qty) \/ row.area # ""

\* sa_importer: any(cell not in (None, "", " ") for cell in row)
sa_row_not_noise(row) ==
    row.part # NoPart \/ QtyFilled(row.qty) \/ row.area # "" \/ row.other # ""

\* sa_importer row_has_real_data over dict(zip(normalized_excel_headers, row)):
\* of PRIMARY_FIELDS only "area" and "customer" are keys of that dict
row_has_real_data(row) == row.area # ""

SheetRows ==
    UNION {[1..n -> {BlankRow, DataRow, UntimedRow, SparseRow}] : n \in 0..MaxSheetRows}

\* a sheet: the importer it is for, how it spells its headers, the required
\* columns it leaves out, its data rows
Sheets ==
    UNION {{[kind |-> k, style |-> st, dropped |-> d, rows |-> rows] :
               st \in {"template", "aliases"},
               d \in {x \in SUBSET Range(RequiredColumns(k)) :
                          Cardinality(x) <= MaxDropped},
               rows \in SheetRows} :
           k \in ImportKinds}

\* row 1 of the sheet: the headers of the columns it has, and in the aliases
\* style a column no importer requires
HeaderCells(sheet) ==
    LET kept(c) == c \notin sheet.dropped
        cols == SelectSeq(RequiredColumns(sheet.kind), kept)
    IN [i \in 1..Len(cols) |-> Spelling(sheet.kind, cols[i], sheet.style)]
       \o (IF sheet.style = "aliases" THEN <<"Category">> ELSE <<>>)

-----------------------------------------------------------------------------
(* The three importers and the handlers that run them *)

\* import_inventory_from_excel(path, sheet_name, user): (added, missing) and
\* the table.  InventoryItem.create runs once for each row that passes both checks.
import_inventory_from_excel(cells, rows, user, inv, autoinc) ==
    LET headers == [i \in 1..Len(cells) |-> strip_lower(cells[i])]
        missing == MissingFrom(REQUIRED_HEADERS, Range(headers))
        after[i \in 0..Len(rows)] ==
            IF i = 0 THEN [inv |-> inv, autoinc |-> autoinc, added |-> 0]
            ELSE IF ~any_row(rows[i]) \/ ~item_data_any(rows[i]) THEN after[i - 1]
            ELSE [inv |-> InventoryItem_create(after[i - 1].inv, after[i - 1].autoinc,
                                               rows[i].part, rows[i].qty, user),
                  autoinc |-> after[i - 1].autoinc + 1,
                  added |-> after[i - 1].added + 1]
    IN IF missing # <<>>
       THEN [added |-> 0, missing |-> missing, inv |-> inv, autoinc |-> autoinc]
       ELSE [added |-> after[Len(rows)].added, missing |-> <<>>,
             inv |-> after[Len(rows)].inv, autoinc |-> after[Len(rows)].autoinc]

\* sa_importer norm(v): a datetime at midnight becomes its date in ISO
\* layout; texts and times stay
sa_norm(v) == IF v.fmt = "datetime" /\ v \in {DateText("datetime", d) : d \in 1..MaxDay}
              THEN DateText("%Y-%m-%d", v.day)
              ELSE v

\* sa_importer.import_from_excel up to the message box: the outcomes it can
\* have.  ServiceActivity.create runs once for each row that passes both checks
\* and takes its part from the stock.
sa_import_from_excel(cells, rows, user, inv, sa, autoinc) ==
    LET excel_headers == [i \in 1..Len(cells) |-> normalize_header(cells[i])]
        normalized_excel_headers ==
            [i \in 1..Len(cells) |-> alias_lookup(excel_headers[i])]
        missing == MissingFrom(sa_required_headers, Range(normalized_excel_headers))
        after[i \in 0..Len(rows)] ==
            IF i = 0
            THEN {[inv |-> inv, sa |-> sa, autoinc |-> autoinc, added |-> 0]}
            ELSE IF ~sa_row_not_noise(rows[i]) \/ ~row_has_real_data(rows[i]) THEN after[i - 1]
            ELSE UNION {{[inv |-> ServiceActivity_create_stock(
                                      o.inv, rows[i].part, rows[i].qty, user, row),
                          sa |-> ServiceActivity_insert(
                                     o.sa, o.autoinc, rows[i].part, rows[i].qty,
                                     compute_duration(sa_norm(rows[i].arr_date),
                                                      sa_norm(rows[i].arr_time),
                                                      sa_norm(rows[i].dep_date),
                                                      sa_norm(rows[i].dep_time)),
                                     user),
                          autoinc |-> o.autoinc + 1,
                          added |-> o.added + 1] :
                            row \in FetchOne(o.inv, rows[i].part, UserOrDefault(user))} :
                        o \in after[i - 1]}
    IN IF missing # <<>>
       THEN {[added |-> 0, missing |-> missing, inv |-> inv, sa |-> sa,
              autoinc |-> autoinc]}
       ELSE {[added |-> o.added, missing |-> <<>>, inv |-> o.inv, sa |-> o.sa,
              autoinc |-> o.autoinc] : o \in after[Len(rows)]}

\* equipment_importer.import_from_excel up to the message box.
\* EquipmentInfo.create runs once for each row with any(row).
equipment_import_from_excel(cells, rows, user, equipment) ==
    LET excel_headers == [i \in 1..Len(cells) |-> normalize_header(cells[i])]
        mapped_internal_fields ==
            {equipment_header_map(excel_headers[i]) : i \in 1..Len(cells)} \ {""}
        missing == MissingFrom(required_normalized, mapped_internal_fields)
        after[i \in 0..Len(rows)] ==
            IF i = 0 THEN equipment
            ELSE IF ~any_row(rows[i]) THEN after[i - 1]
            ELSE Append(after[i - 1], [id |-> Len(after[i - 1]) + 1, user |-> user])
    IN IF missing # <<>>
       THEN [added |-> 0, missing |-> missing, equipment |-> equipment]
       ELSE [added |-> Len(after[Len(rows)]) - Len(equipment), missing |-> <<>>,
             equipment |-> after[Len(rows)]]

\* what the handler reported
ImportReport(kind, added, missing) ==
    [kind |-> kind, added |-> added, missing |-> missing]

\* the stock data/database.db can hold when the program starts
StoredInventories ==
    {<<>>, <<[id |-> 1, part_number |-> "X1", quantity |-> MaxStock, user |-> DefaultUser]>>}

\* the main window is up (login done, dashboard and inventory page loaded
\* from the store) and the user has one workbook to import
InitImport ==
    /\ inventory_items \in StoredInventories
    /\ service_activity = <<>>
    /\ inv_autoinc = Len(inventory_items)
    /\ sa_autoinc = 0
    /\ current_user = NoUser
    /\ _current_user = "tech1"
    /\ inventory_page_items = InventoryItem_get_all_for_user(inventory_items, get_current_user)
    /\ sa_page = [created |-> FALSE, items |-> <<>>]
    /\ toner_widget_items = InventoryItem_get_all_for_user(inventory_items, get_current_user)
    /\ recent_activity_items = <<>>
    /\ last = NoCall
    /\ stock_before_create = NoGhost
    /\ equipment_info = <<>>
    /\ users = <<UserRow(1, "tech1", Argon2Hash(CurrentParams, "s1", "pw1"))>>
    /\ auth = NoAuth
    /\ workbook \in Sheets
    /\ imported = NoImport
    /\ ComponentsIdle

\* InventoryPage.import_from_excel, the file and its sheet chosen: the
\* importer; missing columns are reported and nothing else happens; otherwise
\* load_items() and ui.signals.model_signals.inventory_changed.emit()
ImportInventory ==
    /\ workbook.kind = "inventory"
    /\ inv_autoinc + Len(workbook.rows) <= MaxInvRows
    /\ LET r == import_inventory_from_excel(HeaderCells(workbook), workbook.rows,
                                            get_current_user, inventory_items,
                                            inv_autoinc)
       IN /\ inventory_items' = r.inv
          /\ inv_autoinc' = r.autoinc
          /\ imported' = ImportReport("inventory", r.added, r.missing)
          /\ SetUi(IF r.missing # <<>> THEN Ui
                   ELSE InventoryPage_after_save(Ui, r.inv, service_activity))
    /\ last' = Call("import_inventory", 0)
    /\ stock_before_create' = NoGhost
    /\ UNCHANGED <<service_activity, sa_autoinc, equipment_info, workbook,
                   sessionVars, authVars, componentVars>>

\* ServiceActivityPage.import_from_excel, the file and its sheet chosen:
\* missing columns are reported and nothing else happens; otherwise the rows
\* are created, then load_items() and
\* ui.signals.model_signals.service_activity_changed.emit()
ImportServiceActivity ==
    /\ workbook.kind = "service_activity"
    /\ sa_page.created
    /\ sa_autoinc + Len(workbook.rows) <= MaxSaRows
    /\ \E r \in sa_import_from_excel(HeaderCells(workbook), workbook.rows,
                                     get_current_user, inventory_items,
                                     service_activity, sa_autoinc) :
          /\ inventory_items' = r.inv
          /\ service_activity' = r.sa
          /\ sa_autoinc' = r.autoinc
          /\ imported' = ImportReport("service_activity", r.added, r.missing)
          /\ SetUi(IF r.missing # <<>> THEN Ui
                   ELSE Emit(UiBus, "service_activity_changed",
                             ServiceActivityPage_load_items(Ui, r.sa), r.inv, r.sa))
    /\ last' = Call("import_service_activity", 0)
    /\ stock_before_create' = NoGhost
    /\ UNCHANGED <<inv_autoinc, equipment_info, workbook, sessionVars, authVars, componentVars>>

\* EquipmentInfoPage.import_from_excel, the file and its sheet chosen
ImportEquipment ==
    /\ workbook.kind = "equipment"
    /\ Len(equipment_info) + Len(workbook.rows) <= MaxEquipRows
    /\ LET r == equipment_import_from_excel(HeaderCells(workbook), workbook.rows,
                                            get_current_user, equipment_info)
       IN /\ equipment_info' = r.equipment
          /\ imported' = ImportReport("equipment", r.added, r.missing)
    /\ last' = Call("import_equipment", 0)
    /\ stock_before_create' = NoGhost
    /\ UNCHANGED <<dbVars, uiVars, workbook, sessionVars, authVars, componentVars>>

NextImport ==
    \/ ShowServiceActivityPage
    \/ ImportInventory
    \/ ImportServiceActivity
    \/ ImportEquipment

SpecImport == InitImport /\ [][NextImport]_vars

-----------------------------------------------------------------------------
(* The session user and the accounts: C5, C7, C8, C9 *)

\* C5: once login_user has returned True for a username, get_current_user()
\* gives that username (not "default_user"), and it keeps giving it until
\* another login succeeds.
C5_LoginSetsCurrentUser ==
    [][/\ (auth'.op = "login" /\ auth'.ret) => get_current_user' = auth'.username
       /\ ~(auth'.op = "login" /\ auth'.ret) => get_current_user' = get_current_user]_vars

\* C7: register_user with a username the table already holds returns False
\* and leaves the table as it was.
C7_DuplicateUsernameRejected ==
    [][(auth'.op = "register" /\ UserRows(users, auth'.username) # {})
       => (auth'.ret = FALSE /\ users' = users)]_vars

\* a registration was turned down for a username the table holds
C7_Witness ==
    /\ auth.op = "register"
    /\ auth.ret = FALSE
    /\ UserRows(users, auth.username) # {}
    /\ Len(users) = 2

\* the stored hash of username is a well-formed hash of password
HoldsPassword(tbl, username, password) ==
    \E i \in UserRows(tbl, username) :
        tbl[i].password_hash.kind = "argon2" /\ tbl[i].password_hash.pw = password

\* C8: a login with the right password returns True; when the stored hash was
\* made under other parameters than the current ones, that user's hash, and
\* no other row, is replaced by a hash of the same password under the current
\* parameters; otherwise the table is unchanged.
C8_StaleHashUpgraded ==
    [][(auth'.op = "login" /\ HoldsPassword(users, auth'.username, auth'.password))
       => /\ auth'.ret = TRUE
          /\ Len(users') = Len(users)
          /\ \A i \in 1..Len(users) :
                IF users[i].username = auth'.username
                   /\ users[i].password_hash.params # CurrentParams
                THEN /\ users'[i].id = users[i].id
                     /\ users'[i].username = users[i].username
                     /\ users'[i].password_hash.kind = "argon2"
                     /\ users'[i].password_hash.params = CurrentParams
                     /\ users'[i].password_hash.pw = auth'.password
                ELSE users'[i] = users[i]]_vars

\* a login read a hash under stale parameters, it now is under the current
\* ones, and the other user's stale hash is still there
C8_Witness ==
    /\ auth.op = "login"
    /\ auth.ret = TRUE
    /\ auth.stored_hash.params = StaleParams
    /\ \E i \in UserRows(users, auth.username) :
          users[i].password_hash.params = CurrentParams
    /\ \E i \in 1..Len(users) :
          users[i].username # auth.username /\ users[i].password_hash.params = StaleParams

\* C9: login_user never raises on an authentication failure: for an unknown
\* username, a wrong password, an empty or a malformed stored hash it returns
\* False, and neither the table nor the session user changes.
C9_LoginFailureReturnsFalse ==
    [][auth'.op = "login"
       => /\ auth'.raised = FALSE
          /\ ~HoldsPassword(users, auth'.username, auth'.password)
             => (auth'.ret = FALSE /\ users' = users /\ _current_user' = _current_user)]_vars

\* a login was denied on a malformed stored hash
C9_Witness ==
    /\ auth.op = "login"
    /\ auth.ret = FALSE
    /\ auth.raised = FALSE
    /\ auth.stored_hash = MalformedHash
    /\ \E i \in UserRows(users, auth.username) : users[i].password_hash = MalformedHash

-----------------------------------------------------------------------------
(* An import from a sheet that lacks required columns: C10 *)

ImportCalls == {"import_inventory", "import_service_activity", "import_equipment"}

\* C10: an import whose sheet lacks at least one required column inserts no
\* record, whatever data rows the sheet has, and reports the names of the
\* columns that are missing, each once and no other.
C10_MissingColumnsReported ==
    [][(last'.op \in ImportCalls /\ workbook.dropped # {})
       => /\ imported'.added = 0
          /\ UNCHANGED <<dbVars, equipment_info>>
          /\ Range(imported'.missing) = workbook.dropped
          /\ Len(imported'.missing) = Cardinality(workbook.dropped)]_vars

\* an equipment sheet with alias headers and a data row, lacking two columns:
\* both are reported and nothing is inserted
C10_Witness ==
    /\ last.op = "import_equipment"
    /\ workbook.style = "aliases"
    /\ workbook.dropped = {"building", "poc_phone"}
    /\ imported.missing = <<"building", "poc_phone">>
    /\ \E i \in 1..Len(workbook.rows) : workbook.rows[i] = DataRow
    /\ imported.added = 0
    /\ equipment_info = <<>>

-----------------------------------------------------------------------------
(* An import from a sheet that has every required column: C11 *)

\* the data rows of the sheet that hold a value in some cell
NonBlankRows(rows) == {i \in 1..Len(rows) : rows[i] # BlankRow}

\* the records the three tables hold together
RecordCount == Len(inventory_items) + Len(service_activity) + Len(equipment_info)

\* C11: an import whose sheet has every required column inserts one record
\* for each data row that is not blank and none for a blank row: the count it
\* reports and the growth of the table are the number of non-blank rows.
C11_OneRecordPerNonBlankRow ==
    [][(last'.op \in ImportCalls /\ workbook.dropped = {})
       => /\ imported'.added = Cardinality(NonBlankRows(workbook.rows))
          /\ RecordCount' = RecordCount + Cardinality(NonBlankRows(workbook.rows))]_vars

-----------------------------------------------------------------------------
(* The call duration of an imported service activity: C12 *)

\* the call duration the record of a sheet row is to carry: the cell's value
\* when there is one, else the duration from its arrival and departure cells
ExpectedCallDuration(row) ==
    IF row.call_duration # "" THEN row.call_duration
    ELSE compute_duration(sa_norm(row.arr_date), sa_norm(row.arr_time),
                          sa_norm(row.dep_date), sa_norm(row.dep_time))

\* C12: the service-activity importer computes the call duration only for a
\* row whose call-duration cell is empty; a value in the cell is stored as it
\* is.  (Every record the import adds carries the expected call duration of a
\* row of the sheet.)
C12_SheetCallDurationKept ==
    [][(last'.op = "import_service_activity" /\ workbook.dropped = {})
       => \A k \in 1..Len(service_activity') :
             k > Len(service_activity)
             => \E i \in 1..Len(workbook.rows) :
                   /\ workbook.rows[i].part = service_activity'[k].part_replaced
                   /\ workbook.rows[i] \notin {BlankRow, SparseRow}
                   /\ service_activity'[k].call_duration =
                          ExpectedCallDuration(workbook.rows[i])]_vars

-----------------------------------------------------------------------------
(* ui/components/filters/filter_proxy_models.py: the proxy between a page's  *)
(* row model and its table view.  A text is a sequence of characters; a    *)
(* source row and a view row are positions counted from 1.                 *)

\* rows of a page's row model
MaxTableRows == 2

\* attribute values of a row object
None == [type |-> "NoneType", text |-> <<>>, int |-> 0]
Str(t) == [type |-> "str", text |-> t, int |-> 0]
IntValue(n) == [type |-> "int", text |-> <<>>, int |-> n]

\* str(n) for n >= 0
RECURSIVE Digits(_)
Digits(n) == IF n < 10 THEN <<ToString(n)>> ELSE Digits(n \div 10) \o <<ToString(n % 10)>>

\* str(val)
str(val) ==
    CASE val.type = "NoneType" -> <<"N", "o", "n", "e">>
      [] val.type = "int" -> Digits(val.int)
      [] OTHER -> val.text

\* str(val) with no test for None
sval_none_as_text(val) == str(val)

\* "" if val is None else str(val)
sval(val) == IF val = None THEN <<>> ELSE str(val)

\* the letters that have an upper and a lower case, <<upper, lower>>
Letters == {<<"A", "a">>, <<"B", "b">>}

\* text.lower() leaving every character as it is
lower_as_typed(text) == text

\* text.lower()
lower(text) ==
    [i \in 1..Len(text) |->
        IF \E l \in Letters : l[1] = text[i]
        THEN (CHOOSE l \in Letters : l[1] = text[i])[2]
        ELSE text[i]]

\* text.strip()
strip(text) ==
    LET inked == {i \in 1..Len(text) : text[i] # " "}
    IN IF inked = {} THEN <<>>
       ELSE SubSeq(text, CHOOSE i \in inked : \A j \in inked : i <= j,
                         CHOOSE i \in inked : \A j \in inked : i >= j)

\* needle in text
contains(needle, text) ==
    \E at \in 0..(Len(text) - Len(needle)) : SubSeq(text, at + 1, at + Len(needle)) = needle

\* the columns of a table; the last one holds the action buttons
columns == <<"serial_number", "model", "quantity", "actions">>

\* getattr(item, col_name, "")
getattr(item, col_name) == IF col_name \in DOMAIN item THEN item[col_name] ELSE Str(<<>>)

\* PartsTableModel.data(index, Qt.DisplayRole)
data(item, col_idx) ==
    IF columns[col_idx] = "actions"
    THEN <<"E", "d", "i", "t", " ", "|", " ", "D", "e", "l", "e", "t", "e">>
    ELSE sval(getattr(item, columns[col_idx]))

\* a value of a filter map: a set of texts, or a str
SetOf(members) == [type |-> "set", members |-> members, text |-> <<>>]
Text(text) == [type |-> "str", members |-> {}, text |-> text]

\* not allowed
Falsy(allowed) == allowed.members = {} /\ allowed.text = <<>>

\* sval in allowed: membership of a set, a substring of a str
In(value, allowed) ==
    IF allowed.type = "set" THEN value \in allowed.members ELSE contains(value, allowed.text)

\* the proxy classes with an allow-list per column
AllowListProxies == {"ColumnFilterProxy", "InventoryFilterProxy", "ServiceActivityFilterProxy"}

\* ColumnFilterProxy.filterAcceptsRow; InventoryFilterProxy and
\* ServiceActivityFilterProxy run the same loop without the test on self.columns
AllowList_filterAcceptsRow(p, source_row) ==
    \/ p.cls = "ColumnFilterProxy" /\ source_row \notin 1..Len(p.items)
    \/ \A col_name \in DOMAIN p.filters :
          \/ Falsy(p.filters[col_name])
          \/ p.cls = "ColumnFilterProxy" /\ col_name \notin Range(columns)
          \/ In(sval(getattr(p.items[source_row], col_name)), p.filters[col_name])

\* MileageFilterProxy.filterAcceptsRow
MileageFilterProxy_filterAcceptsRow(p, source_row) ==
    \/ source_row \notin 1..Len(p.items)
    \/ \A col_key \in DOMAIN p._text_filters :
          LET val == getattr(p.items[source_row], col_key)
          IN contains(p._text_filters[col_key],
                      IF val = None THEN <<>> ELSE lower(str(val)))

\* PartsFilterProxy.filterAcceptsRow
PartsFilterProxy_filterAcceptsRow(p, source_row) ==
    \/ DOMAIN p.column_filters = {}
    \/ \A col_idx \in DOMAIN p.column_filters :
          \/ p.column_filters[col_idx] = <<>>
          \/ contains(p.column_filters[col_idx], lower(data(p.items[source_row], col_idx)))

filterAcceptsRow(p, source_row) ==
    CASE p.cls \in AllowListProxies -> AllowList_filterAcceptsRow(p, source_row)
      [] p.cls = "MileageFilterProxy" -> MileageFilterProxy_filterAcceptsRow(p, source_row)
      [] p.cls = "PartsFilterProxy" -> PartsFilterProxy_filterAcceptsRow(p, source_row)

\* QSortFilterProxyModel after invalidateFilter(): the accepted source rows,
\* in the order of the source
RECURSIVE Accepted(_, _)
Accepted(p, n) ==
    IF n = 0 THEN <<>>
    ELSE Accepted(p, n - 1) \o (IF filterAcceptsRow(p, n) THEN <<n>> ELSE <<>>)

invalidateFilter(p) == [p EXCEPT !.mapping = Accepted(p, Len(p.items))]

\* index.row(), the view row taken for the source row
mapToSource_view_row(p, row) == row

\* QSortFilterProxyModel.mapToSource(index).row()
mapToSource(p, row) == p.mapping[row]

\* a dict without a key, and with a key set
Pop(d, key) == [k \in DOMAIN d \ {key} |-> d[k]]
Put(d, key, value) == [k \in DOMAIN d \cup {key} |-> IF k = key THEN value ELSE d[k]]

\* the row objects a page loads
RowObjects ==
    {[serial_number |-> Str(<<"S", "1">>), model |-> Str(<<"A">>), quantity |-> IntValue(1)],
     [serial_number |-> Str(<<"S">>), model |-> Str(<<"B">>), quantity |-> IntValue(12)],
     [serial_number |-> Str(<<>>), model |-> Str(<<"a", "B">>), quantity |-> IntValue(1)],
     [serial_number |-> Str(<<"S", "1">>), model |-> None, quantity |-> IntValue(2)]}

RowLists == UNION {[1..n -> RowObjects] : n \in 1..MaxTableRows}

\* the allow-sets a filter popup or a caller of set_filters hands over
AllowSets ==
    [model |-> {SetOf({}), SetOf({<<"A">>}), SetOf({<<"B">>}), SetOf({<<>>}),
                SetOf({<<"A">>, <<>>})},
     quantity |-> {SetOf({}), SetOf({<<"1">>})}]

\* the serial numbers of the equipment records
Serials == {<<"S", "1">>, <<"S">>}

FilterMaps ==
    UNION {{f \in [cols -> UNION {AllowSets[c] : c \in cols}] :
              \A c \in cols : f[c] \in AllowSets[c]} : cols \in SUBSET {"model", "quantity"}}

\* what a user types into a "Contains" field
TypedTexts == {<<>>, <<"A">>, <<" ", "b", " ">>, <<"A", "b">>, <<"1">>}

\* a page after load_items(), no filter set
OpenTable(cls, items) ==
    invalidateFilter([cls |-> cls, items |-> items, filters |-> <<>>, _text_filters |-> <<>>,
                      column_filters |-> <<>>, typed |-> <<>>, mapping |-> <<>>])

ProxyClasses == AllowListProxies \cup {"MileageFilterProxy", "PartsFilterProxy"}

InitFilter ==
    /\ inventory_items = <<>>
    /\ service_activity = <<>>
    /\ inv_autoinc = 0
    /\ sa_autoinc = 0
    /\ current_user = NoUser
    /\ _current_user = NoUser
    /\ inventory_page_items = <<>>
    /\ sa_page = [created |-> FALSE, items |-> <<>>]
    /\ toner_widget_items = <<>>
    /\ recent_activity_items = <<>>
    /\ last = NoCall
    /\ stock_before_create = NoGhost
    /\ equipment_info = <<>>
    /\ users = <<>>
    /\ auth = NoAuth
    /\ workbook = NoSheet
    /\ imported = NoImport
    /\ duration = NoDuration
    /\ delegate = NoDelegate
    /\ FormsIdle
    /\ PagesIdle
    /\ \E cls \in ProxyClasses, items \in RowLists : proxy = OpenTable(cls, items)

FilterFrame ==
    UNCHANGED <<dbVars, sessionVars, uiVars, authVars, importVars, duration, delegate,
                formVars, pageVars, stock_before_create>>

\* ColumnFilterProxy.set_filters(filters), and the same method of
\* InventoryFilterProxy and ServiceActivityFilterProxy
set_filters ==
    /\ proxy.cls \in AllowListProxies
    /\ \E filters \in FilterMaps :
          proxy' = invalidateFilter([proxy EXCEPT !.filters = filters])
    /\ FilterFrame
    /\ last' = Call("set_filters", 0)

\* EquipmentInfoPage._on_action_show_activity(source_row): the record's serial
\* number goes into the service-activity page's filter map as it is, and the
\* page's load_items() hands the map to set_filters
_on_action_show_activity ==
    /\ proxy.cls = "ServiceActivityFilterProxy"
    /\ \E serial \in Serials :
          proxy' = invalidateFilter(
                       [proxy EXCEPT !.filters = Put(@, "serial_number", Text(serial))])
    /\ last' = Call("_on_action_show_activity", 0)
    /\ FilterFrame

\* MileageFilterProxy.set_text_filter(column_key, text)
set_text_filter ==
    /\ proxy.cls = "MileageFilterProxy"
    /\ \E column_key \in {"model", "quantity"}, typed \in TypedTexts :
          LET text == lower(strip(typed))
          IN proxy' = invalidateFilter(
                 IF text = <<>>
                 THEN [proxy EXCEPT !._text_filters = Pop(@, column_key),
                                    !.typed = Pop(@, column_key)]
                 ELSE [proxy EXCEPT !._text_filters = Put(@, column_key, text),
                                    !.typed = Put(@, column_key, typed)])
    /\ FilterFrame
    /\ last' = Call("set_text_filter", 0)

\* MileageFilterProxy.clear_all_filters()
clear_all_filters ==
    /\ proxy.cls = "MileageFilterProxy"
    /\ proxy' = invalidateFilter([proxy EXCEPT !._text_filters = <<>>, !.typed = <<>>])
    /\ FilterFrame
    /\ last' = Call("clear_all_filters", 0)

\* PartsFilterDialog.get_filters() over the dialog's line edits
get_filters(edits) ==
    [col_idx \in {i \in DOMAIN edits : lower(strip(edits[i])) # <<>>} |->
        lower(strip(edits[col_idx]))]

\* PartsPage.open_filter_dialog, the dialog accepted: one line edit per column
\* but the actions column
open_filter_dialog ==
    /\ proxy.cls = "PartsFilterProxy"
    /\ \E edits \in [{i \in DOMAIN columns : columns[i] # "actions"} -> TypedTexts] :
          proxy' = invalidateFilter([proxy EXCEPT !.column_filters = get_filters(edits),
                                                  !.typed = edits])
    /\ FilterFrame
    /\ last' = Call("open_filter_dialog", 0)

\* PartsPage.clear_filters
clear_filters ==
    /\ proxy.cls = "PartsFilterProxy"
    /\ proxy' = invalidateFilter([proxy EXCEPT !.column_filters = <<>>, !.typed = <<>>])
    /\ FilterFrame
    /\ last' = Call("clear_filters", 0)

NextFilter ==
    \/ set_filters
    \/ _on_action_show_activity
    \/ set_text_filter
    \/ clear_all_filters
    \/ open_filter_dialog
    \/ clear_filters

SpecFilter == InitFilter /\ [][NextFilter]_vars

-----------------------------------------------------------------------------
(* The rows a filter proxy shows: C13, C14 *)

\* the source row has a view row
Visible(source_row) == \E row \in 1..Len(proxy.mapping) : proxy.mapping[row] = source_row

\* the value of a column as a text, None as the empty text
Stringified(val) ==
    CASE val.type = "NoneType" -> <<>>
      [] val.type = "int" -> Digits(val.int)
      [] OTHER -> val.text

\* every value of the filter map is a set of texts
AllowListMap(filters) == \A col \in DOMAIN filters : filters[col].type = "set"

\* C13: under an allow-list filter map a row is visible if and only if, for
\* every filtered column with a non-empty allow-set, the stringified value of
\* that column in the row (None as the empty string) is in the allow-set; an
\* empty allow-set is no constraint, and an empty map shows every row.
C13_AllowListVisibility ==
    (proxy.cls \in AllowListProxies /\ AllowListMap(proxy.filters))
    => \A source_row \in 1..Len(proxy.items) :
          Visible(source_row)
          <=> \A col \in DOMAIN proxy.filters :
                 proxy.filters[col].members # {}
                 => Stringified(proxy.items[source_row][col]) \in proxy.filters[col].members

\* the allow-list {"model": {"A"}} over two rows shows one and hides one
C13_Witness ==
    /\ proxy.cls = "InventoryFilterProxy"
    /\ DOMAIN proxy.filters = {"model"}
    /\ proxy.filters["model"] = SetOf({<<"A">>})
    /\ Len(proxy.items) = 2
    /\ Len(proxy.mapping) = 1
    /\ proxy.items[proxy.mapping[1]].model = Str(<<"A">>)

\* the same character, or the two cases of one letter
SameLetter(a, b) == a = b \/ \E l \in Letters : {a, b} = {l[1], l[2]}

\* the needle occurs in the text, whatever the case of either
ContainsIgnoringCase(needle, text) ==
    \E at \in 0..(Len(text) - Len(needle)) :
       \A j \in 1..Len(needle) : SameLetter(needle[j], text[at + j])

\* the needle a user typed is in the cell, or no needle was typed
NeedleFound(typed, val) ==
    strip(typed) = <<>> \/ ContainsIgnoringCase(strip(typed), Stringified(val))

-----------------------------------------------------------------------------
(* ui/components/action_buttons: the delegates that paint the buttons of   *)
(* an actions cell and turn mouse events on the cell into callbacks.       *)
(* A position is <<x, y>> in the coordinates of the viewport.              *)

\* the delegate each page sets on its actions column
DelegateOf ==
    [InventoryFilterProxy |-> "InventoryActionButtonDelegate",
     ServiceActivityFilterProxy |-> "SAActionButtonDelegate",
     MileageFilterProxy |-> "ActionButtonsDelegate"]

\* the keys of the buttons, in the order paint draws them
button_keys(cls) ==
    IF cls = "InventoryActionButtonDelegate" THEN <<"order", "edit", "delete">>
    ELSE <<"edit", "delete">>

\* the sizes paint uses
Layout(cls) ==
    IF cls = "ActionButtonsDelegate" THEN [h |-> 24, w |-> 64, spacing |-> 6]
    ELSE [h |-> 26, w |-> 64, spacing |-> 8]

QRect(x, y, w, h) == [x |-> x, y |-> y, width |-> w, height |-> h]

\* QRect.right()
right(r) == r.x + r.width - 1

\* QRect.contains(pos)
rect_contains(r, pos) ==
    /\ r.x <= pos[1] /\ pos[1] <= right(r)
    /\ r.y <= pos[2] /\ pos[2] <= r.y + r.height - 1

\* option.rect of the actions cell of a view row: the rows are 30 high
option_rect(row) == QRect(0, (row - 1) * 30, 240, 30)

\* the left edge of the n-th button: the first is one spacing inside the cell,
\* the next one spacing after right() of the one before
RECURSIVE button_x(_, _, _)
button_x(cls, rect, n) ==
    IF n = 1 THEN rect.x + Layout(cls).spacing
    ELSE button_x(cls, rect, n - 1) + Layout(cls).w - 1 + Layout(cls).spacing

\* paint: the rectangles cached for one cell, by button key
rects_for_cell(cls, rect) ==
    [key \in Range(button_keys(cls)) |->
        QRect(button_x(cls, rect, CHOOSE n \in DOMAIN button_keys(cls) : button_keys(cls)[n] = key),
              rect.y + (rect.height - Layout(cls).h) \div 2,
              Layout(cls).w, Layout(cls).h)]

\* the button of the cached rectangles that contains pos, "" when none does
button_at(rects, pos) ==
    IF \E key \in DOMAIN rects : rect_contains(rects[key], pos)
    THEN CHOOSE key \in DOMAIN rects : rect_contains(rects[key], pos)
    ELSE ""

\* editorEvent(event, model, option, index) of the three delegates
editorEvent(d, p, event) ==
    LET handled == [d EXCEPT !.event = event, !.invoked = <<>>]
        rects == d._rects[event.row]
        at == button_at(rects, event.pos)
    IN IF event.row \notin DOMAIN d._rects THEN handled
       ELSE CASE event.type = "MouseMove" ->
                   IF at # ""
                   THEN [handled EXCEPT !._hovered_button = [row |-> event.row, key |-> at]]
                   ELSE IF d.cls = "InventoryActionButtonDelegate"
                        THEN handled
                        ELSE [handled EXCEPT !._hovered_button = NoHover]
              [] event.type = "Leave" -> [handled EXCEPT !._hovered_button = NoHover]
              [] event.type = "MouseButtonRelease" ->
                   IF at # ""
                   THEN [handled EXCEPT !.invoked =
                            <<[callback |-> at, row |-> mapToSource(p, event.row)]>>]
                   ELSE handled

\* where the pointer can be inside the cell of a view row
PointerOffsets == {<<3, 15>>, <<40, 15>>, <<73, 15>>, <<100, 15>>, <<145, 15>>, <<180, 15>>,
                   <<40, 1>>}

Positions(row) == {<<option_rect(row).x + o[1], option_rect(row).y + o[2]>> : o \in PointerOffsets}

\* the filters a page may have set when the pointer comes to its table
FilteredTables ==
    {invalidateFilter([OpenTable(cls, items) EXCEPT !.filters = filters]) :
        cls \in {"InventoryFilterProxy", "ServiceActivityFilterProxy"}, items \in RowLists,
        filters \in {f \in FilterMaps : DOMAIN f \subseteq {"model"}}}
    \cup
    {invalidateFilter([OpenTable("MileageFilterProxy", items)
                           EXCEPT !._text_filters = needles, !.typed = needles]) :
        items \in RowLists, needles \in {<<>>, [c \in {"model"} |-> <<"b">>]}}

InitDelegate ==
    /\ inventory_items = <<>>
    /\ service_activity = <<>>
    /\ inv_autoinc = 0
    /\ sa_autoinc = 0
    /\ current_user = NoUser
    /\ _current_user = NoUser
    /\ inventory_page_items = <<>>
    /\ sa_page = [created |-> FALSE, items |-> <<>>]
    /\ toner_widget_items = <<>>
    /\ recent_activity_items = <<>>
    /\ last = NoCall
    /\ stock_before_create = NoGhost
    /\ equipment_info = <<>>
    /\ users = <<>>
    /\ auth = NoAuth
    /\ workbook = NoSheet
    /\ imported = NoImport
    /\ duration = NoDuration
    /\ FormsIdle
    /\ PagesIdle
    /\ proxy \in FilteredTables
    /\ delegate = [NoDelegate EXCEPT !.cls = DelegateOf[proxy.cls]]

DelegateFrame ==
    UNCHANGED <<dbVars, sessionVars, uiVars, authVars, importVars, duration, proxy,
                formVars, pageVars, last, stock_before_create>>

\* the view paints the actions cell of every view row
Paint ==
    /\ delegate' = [delegate EXCEPT !._rects =
                       [row \in 1..Len(proxy.mapping) |->
                           rects_for_cell(delegate.cls, option_rect(row))]]
    /\ DelegateFrame

\* the pointer moves inside the actions cell of a view row
MouseMove ==
    /\ \E row \in 1..Len(proxy.mapping) : \E pos \in Positions(row) :
          delegate' = editorEvent(delegate, proxy,
                                  [type |-> "MouseMove", row |-> row, pos |-> pos])
    /\ DelegateFrame

\* the pointer leaves the cell
Leave ==
    /\ \E row \in 1..Len(proxy.mapping) : \E pos \in Positions(row) :
          delegate' = editorEvent(delegate, proxy,
                                  [type |-> "Leave", row |-> row, pos |-> pos])
    /\ DelegateFrame

\* the mouse button is released inside the actions cell of a view row
MouseButtonRelease ==
    /\ \E row \in 1..Len(proxy.mapping) : \E pos \in Positions(row) :
          delegate' = editorEvent(delegate, proxy,
                                  [type |-> "MouseButtonRelease", row |-> row, pos |-> pos])
    /\ DelegateFrame

NextDelegate ==
    \/ Paint
    \/ MouseMove
    \/ Leave
    \/ MouseButtonRelease

SpecDelegate == InitDelegate /\ [][NextDelegate]_vars

-----------------------------------------------------------------------------
(* The callbacks and the hover state of a delegate: C15, C16 *)

\* the cell of the event had its rectangles painted before the event
EventOnPaintedCell == delegate'.event.row \in DOMAIN delegate._rects

\* the buttons whose painted rectangle holds the position of the event
ButtonsUnderPointer ==
    {key \in DOMAIN delegate._rects[delegate'.event.row] :
        LET r == delegate._rects[delegate'.event.row][key]
            pos == delegate'.event.pos
        IN /\ r.x <= pos[1] /\ pos[1] < r.x + r.width
           /\ r.y <= pos[2] /\ pos[2] < r.y + r.height}

\* C15: a mouse release inside a button rectangle of an actions cell invokes
\* the callback of that button and no other, once, with the row of the source
\* model the view row maps to through the filter proxy; a release inside no
\* button rectangle invokes no callback.
C15_ReleaseInvokesCallback ==
    [][(delegate'.event.type = "MouseButtonRelease" /\ EventOnPaintedCell)
       => IF ButtonsUnderPointer = {}
          THEN delegate'.invoked = <<>>
          ELSE \E key \in ButtonsUnderPointer :
                  delegate'.invoked =
                      <<[callback |-> key, row |-> proxy.mapping[delegate'.event.row]]>>]_vars

\* a release on the edit button of view row 1, which shows source row 2
C15_Witness ==
    /\ delegate.event.type = "MouseButtonRelease"
    /\ delegate.event.row = 1
    /\ proxy.mapping = <<2>>
    /\ delegate.invoked = <<[callback |-> "edit", row |-> 2]>>

\* C16: after a pointer move handled for an actions cell the hovered-button
\* state names the button under the pointer, and no button when the pointer
\* is over none; a leave event empties it.
C16_HoverFollowsPointer ==
    [][/\ (delegate'.event.type = "MouseMove" /\ EventOnPaintedCell)
          => IF ButtonsUnderPointer = {}
             THEN delegate'._hovered_button = NoHover
             ELSE /\ delegate'._hovered_button.row = delegate'.event.row
                  /\ delegate'._hovered_button.key \in ButtonsUnderPointer
       /\ (delegate'.event.type = "Leave" /\ EventOnPaintedCell)
          => delegate'._hovered_button = NoHover]_vars

-----------------------------------------------------------------------------
(* Creating an inventory item: C17 *)

\* C17: InventoryItem.create for user u, part number p and quantity n adds
\* exactly one row: get_all_for_user(u) afterwards is the rows it returned
\* before followed by one new row with part number p and quantity n, and
\* what it returns for any other user is unchanged.
C17_CreateAddsOneRow ==
    [][(last'.op = "inventory_create" /\ last'.args.quantity.is_int)
       => LET u == last'.args.user
              before == InventoryItem_get_all_for_user(inventory_items, u)
              after == InventoryItem_get_all_for_user(inventory_items', u)
          IN /\ Len(after) = Len(before) + 1
             /\ SubSeq(after, 1, Len(before)) = before
             /\ after[Len(after)].part_number = last'.args.part_number
             /\ after[Len(after)].quantity = last'.args.quantity.val
             /\ \A other \in Users \ {u} :
                   InventoryItem_get_all_for_user(inventory_items', other)
                       = InventoryItem_get_all_for_user(inventory_items, other)]_vars

\* part X1 with quantity 2 was created for tech1 while default_user had a row
C17_Witness ==
    /\ last.op = "inventory_create"
    /\ last.args = [user |-> "tech1", part_number |-> "X1", quantity |-> Num(2)]
    /\ Len(inventory_items) = 2
    /\ inventory_items[1].user = DefaultUser
    /\ inventory_items[2] = [id |-> last.id, part_number |-> "X1", quantity |-> 2,
                             user |-> "tech1"]

-----------------------------------------------------------------------------
(* ui/forms: the Save button of a form dialog.  BaseDialogForm._on_save_clicked *)
(* accepts the dialog when the form's on_save_clicked returns True.             *)

\* rows ever inserted into parts_orders
MaxOrders == 1

\* what a user leaves in the quantity field
QtyTexts == QtyInputs \cup {NoText}

\* the dialog after Save
Submitted(form, p, q, reported, accepted) ==
    [form |-> form, part_number |-> p, quantity |-> q, reported |-> reported,
     accepted |-> accepted]

\* InventoryForm, no item: on_save_clicked creates the item and returns True
SaveInventoryForm ==
    \E p \in Parts \cup {NoPart}, q \in QtyTexts :
       /\ InventoryFormAddStore(p, q)
       /\ dialog' = Submitted("InventoryForm", p, q, "", TRUE)
       /\ UNCHANGED <<duration, tableVars, parts_orders, pageVars>>

\* InventoryForm on an item of the page: on_save_clicked updates it and returns True
SaveInventoryFormEdit ==
    \E i \in 1..MaxInvRows, p \in Parts \cup {NoPart}, q \in QtyTexts :
       /\ InventoryFormEditStore(i, p, q)
       /\ dialog' = Submitted("InventoryForm", p, q, "", TRUE)
       /\ UNCHANGED <<duration, tableVars, parts_orders, pageVars>>

\* PartsOrder.create: INSERT one row
PartsOrder_create(orders, quantity, part_number, user) ==
    Append(orders, [id |-> Len(orders) + 1, part_number |-> part_number,
                    quantity |-> safe_int(quantity), user |-> user])

\* PartsOrderForm, no item: on_save_clicked warns and returns False when the
\* part number or the quantity is empty or int(quantity) raises, and creates
\* the order otherwise
SavePartsOrderForm ==
    \E p \in Parts \cup {NoPart}, q \in QtyTexts :
       /\ IF p = NoPart \/ q = NoText
          THEN /\ dialog' = Submitted("PartsOrderForm", p, q, "Missing Field", FALSE)
               /\ UNCHANGED parts_orders
          ELSE IF ~q.is_int
          THEN /\ dialog' = Submitted("PartsOrderForm", p, q, "Invalid Quantity", FALSE)
               /\ UNCHANGED parts_orders
          ELSE /\ Len(parts_orders) < MaxOrders
               /\ dialog' = Submitted("PartsOrderForm", p, q, "", TRUE)
               /\ parts_orders' = PartsOrder_create(parts_orders, q, p, get_current_user)
       /\ last' = Call("parts_order_form_add", 0)
       /\ UNCHANGED <<dbVars, sessionVars, uiVars, authVars, importVars, duration, tableVars, pageVars,
                      stock_before_create>>

NextForm ==
    \/ SaveInventoryForm
    \/ SaveInventoryFormEdit
    \/ SavePartsOrderForm

SpecForm == InitUI /\ [][NextForm]_vars

-----------------------------------------------------------------------------
(* Validation of a submitted form: C20 *)

\* C20: submitting a form whose quantity is not a number, or whose required
\* field (the part number, the quantity) is missing, is reported, writes
\* nothing to the data store and leaves the dialog open.
C20_InvalidFormRejected ==
    [][(/\ last'.op \in {"inventory_form_add", "inventory_form_edit", "parts_order_form_add"}
        /\ ~dialog'.quantity.is_int \/ dialog'.part_number = NoPart)
       => /\ dialog'.reported # ""
          /\ ~dialog'.accepted
          /\ inventory_items' = inventory_items
          /\ parts_orders' = parts_orders]_vars

-----------------------------------------------------------------------------
(* core/models/expense_model.py: the report metadata, one row per user *)

\* what the header fields of a report hold
HeaderTexts == {"Ann", "Bob"}

\* the users a report is saved for
ReportUsers == Users \cup {"tech2"}

\* ExpenseReportInfo.get_for_user: SELECT ... WHERE user = ? LIMIT 1
ExpenseReportInfo_get_for_user(info, user) ==
    LET found == {i \in 1..Len(info) : info[i].user = user}
    IN IF found = {} THEN <<>> ELSE <<info[CHOOSE i \in found : \A j \in found : i <= j]>>

\* upsert_for_user that inserts whether or not the user has a row
upsert_always_inserting(info, user, name) ==
    Append(info, [id |-> Len(info) + 1, user |-> user, name |-> name])

\* ExpenseReportInfo.upsert_for_user: INSERT when get_for_user finds no row,
\* UPDATE ... WHERE user = ? otherwise
ExpenseReportInfo_upsert_for_user(info, user, name) ==
    IF ExpenseReportInfo_get_for_user(info, user) = <<>>
    THEN Append(info, [id |-> Len(info) + 1, user |-> user, name |-> name])
    ELSE [i \in 1..Len(info) |->
             IF info[i].user = user THEN [info[i] EXCEPT !.name = name] ELSE info[i]]

\* MileageHeader.save: INSERT ... ON CONFLICT(user) DO UPDATE SET ...
MileageHeader_save(header, user, values) ==
    IF \E i \in 1..Len(header) : header[i].user = user
    THEN [i \in 1..Len(header) |->
             IF header[i].user = user THEN [header[i] EXCEPT !.employee_name = values]
             ELSE header[i]]
    ELSE Append(header, [user |-> user, employee_name |-> values])

InitExpense == InitUI

ExpenseFrame ==
    UNCHANGED <<dbVars, sessionVars, uiVars, authVars, importVars, duration, tableVars,
                formVars, row_model, life, equipment_page, csv_export, inventory_notes,
                stock_before_create>>

\* one call of ExpenseReportInfo.upsert_for_user
upsert_for_user ==
    \E user \in ReportUsers, name \in HeaderTexts :
       /\ expense_report_info' = ExpenseReportInfo_upsert_for_user(expense_report_info, user, name)
       /\ last' = [Call("upsert_for_user", 0) EXCEPT !.args.user = user]
       /\ UNCHANGED mileage_header
       /\ ExpenseFrame

\* one call of MileageHeader.save
save ==
    \E user \in ReportUsers, values \in HeaderTexts :
       /\ mileage_header' = MileageHeader_save(mileage_header, user, values)
       /\ last' = [Call("save", 0) EXCEPT !.args.user = user]
       /\ UNCHANGED expense_report_info
       /\ ExpenseFrame

NextExpense ==
    \/ upsert_for_user
    \/ save

SpecExpense == InitExpense /\ [][NextExpense]_vars

-----------------------------------------------------------------------------
(* One row of report metadata per user: C21 *)

RowsOf(table, user) == Cardinality({i \in 1..Len(table) : table[i].user = user})

\* C21: after any sequence of upsert_for_user and save calls the store holds
\* at most one expense_report_info row and at most one mileage_header row
\* for each user.
C21_OneRowPerUser ==
    \A user \in ReportUsers :
       /\ RowsOf(expense_report_info, user) <= 1
       /\ RowsOf(mileage_header, user) <= 1

\* both tables were written a second time for a user who had a row: the row
\* holds the later values and is still the only one
C21_Witness ==
    /\ Len(expense_report_info) = 2
    /\ Len(mileage_header) = 2
    /\ expense_report_info[1] = [id |-> 1, user |-> "tech1", name |-> "Bob"]
    /\ mileage_header[1] = [user |-> "tech1", employee_name |-> "Bob"]
    /\ last.op = "upsert_for_user" /\ last.args.user = "tech1"

-----------------------------------------------------------------------------
(* ui/components/base_tables, action_tables: the row models *)

\* bool(val): None, "" and 0 are false
Truthy(val) ==
    CASE val.type = "NoneType" -> FALSE
      [] val.type = "int" -> val.int # 0
      [] OTHER -> val.text # <<>>

\* BaseTableModel.get_value: getattr(item, column_key, "") or ""
get_value(item, column_key) ==
    IF Truthy(getattr(item, column_key)) THEN getattr(item, column_key) ELSE Str(<<>>)

\* BaseTableModel.data(index, Qt.DisplayRole): str(self.get_value(item, key))
BaseTableModel_data(item, col_idx) == str(get_value(item, columns[col_idx]))

RowModels == {"BaseTableModel", "EquipmentInfoTableModel"}

\* data(index, Qt.DisplayRole) of a model of class cls
DisplayRole(cls, item, col_idx) ==
    IF cls = "BaseTableModel" THEN BaseTableModel_data(item, col_idx) ELSE data(item, col_idx)

\* rowCount()
rowCount(m) == Len(m._items)

\* the row objects of a page: the rows of the filter pages, a row with no model
\* attribute and nothing in stock, and a row with an empty model
CellObjects ==
    RowObjects \cup
       {[serial_number |-> Str(<<"S">>), quantity |-> IntValue(0)],
        [serial_number |-> Str(<<"S">>), model |-> Str(<<>>), quantity |-> IntValue(10)]}

CellLists == {<<>>} \cup UNION {[1..n -> CellObjects] : n \in 1..MaxTableRows}

\* the store, the session and the pages before anything was done
StoreIdle ==
    /\ inventory_items = <<>>
    /\ service_activity = <<>>
    /\ inv_autoinc = 0
    /\ sa_autoinc = 0
    /\ current_user = NoUser
    /\ _current_user = NoUser
    /\ inventory_page_items = <<>>
    /\ sa_page = [created |-> FALSE, items |-> <<>>]
    /\ toner_widget_items = <<>>
    /\ recent_activity_items = <<>>
    /\ last = NoCall
    /\ stock_before_create = NoGhost
    /\ equipment_info = <<>>
    /\ users = <<>>
    /\ auth = NoAuth
    /\ workbook = NoSheet
    /\ imported = NoImport

\* a model built over no rows
InitRowModel ==
    /\ StoreIdle
    /\ duration = NoDuration
    /\ TableIdle
    /\ FormsIdle
    /\ ExpenseIdle
    /\ life = NoLife
    /\ inventory_notes = <<>>
    /\ ViewsIdle
    /\ \E cls \in RowModels : row_model = [NoRowModel EXCEPT !.cls = cls]

RowModelFrame ==
    UNCHANGED <<dbVars, sessionVars, uiVars, authVars, importVars, duration, tableVars,
                formVars, expenseVars, life, equipment_page, csv_export, inventory_notes,
                stock_before_create>>

\* set_items(items): the model's rows are replaced
set_items ==
    \E items \in CellLists :
       /\ row_model' = [row_model EXCEPT !._items = items, !.given = items,
                                         !.index = <<0, 0>>, !.text = <<>>]
       /\ last' = Call("set_items", 0)
       /\ RowModelFrame

\* the view reads data(index, Qt.DisplayRole) of a valid index
ReadCell ==
    \E row \in 1..rowCount(row_model), col \in 1..Len(columns) :
       /\ row_model' = [row_model EXCEPT
                           !.index = <<row, col>>,
                           !.text = DisplayRole(row_model.cls, row_model._items[row], col)]
       /\ last' = Call("data", 0)
       /\ RowModelFrame

NextRowModel ==
    \/ set_items
    \/ ReadCell

SpecRowModel == InitRowModel /\ [][NextRowModel]_vars

-----------------------------------------------------------------------------
(* The display text of a cell and the row count: C22 *)

\* the attribute a cell shows is there and is not None
Present(item, key) == key \in DOMAIN item /\ item[key] # None

\* C22: the display text of a cell of a data column is the string form of the
\* row object's attribute named by the column key, and is empty when that
\* attribute is absent or None; after set_items(L) the row count is len(L).
C22_DisplayText ==
    /\ rowCount(row_model) = Len(row_model.given)
    /\ (row_model.index # <<0, 0>> /\ columns[row_model.index[2]] # "actions") =>
          LET item == row_model._items[row_model.index[1]]
              key == columns[row_model.index[2]]
          IN row_model.text = IF Present(item, key) THEN str(item[key]) ELSE <<>>

-----------------------------------------------------------------------------
(* One service activity from its create to its delete, nothing else touching *)
(* the inventory meanwhile                                                   *)

\* edits of the activity
MaxEdits == 2

LifeFrame ==
    UNCHANGED <<duration, tableVars, formVars, expenseVars, row_model, equipment_page,
                csv_export, inventory_notes>>

Named(p) == IF p = NoPart THEN {} ELSE {p}

\* the inventory form, before the activity exists
StockItem ==
    /\ life.phase = "none"
    /\ \E p \in Parts, q \in QtyInputs : InventoryFormAdd(p, q)

\* the service activity form, no item
CreateActivity ==
    /\ life.phase = "none"
    /\ \E p \in Parts \cup {NoPart}, q \in QtyInputs :
          /\ ServiceActivityFormAddStore(p, q)
          /\ life' = [id |-> sa_autoinc + 1, phase |-> "created", inv |-> inventory_items,
                      parts |-> Named(p), edits |-> 0]
    /\ LifeFrame

\* the service activity form on the activity
EditActivity ==
    /\ life.phase = "created"
    /\ life.edits < MaxEdits
    /\ \E i \in 1..MaxSaRows, p \in Parts \cup {NoPart}, q \in QtyInputs :
          /\ ServiceActivityFormEditStore(i, p, q)
          /\ life' = [life EXCEPT !.parts = @ \cup Named(p), !.edits = @ + 1]
    /\ LifeFrame

\* the page's Delete on the activity, confirmed
DeleteActivity ==
    /\ life.phase = "created"
    /\ \E i \in 1..MaxSaRows : ServiceActivityPageDeleteStore(i)
    /\ life' = [life EXCEPT !.phase = "deleted"]
    /\ LifeFrame

NextLife ==
    \/ StockItem
    \/ ShowServiceActivityPage
    \/ CreateActivity
    \/ EditActivity
    \/ DeleteActivity

SpecLife == InitUI /\ [][NextLife]_vars

-----------------------------------------------------------------------------
(* Stock over the life of a service activity: C23 *)

\* C23: once a service activity was created, edited any number of times and
\* deleted, with no other operation on the inventory meanwhile, every
\* inventory row of a part the activity named holds the quantity it held
\* before the create.
C23_StockConserved ==
    life.phase = "deleted" =>
       /\ Len(inventory_items) = Len(life.inv)
       /\ \A k \in 1..Len(life.inv) :
             life.inv[k].part_number \in life.parts =>
                inventory_items[k].quantity = life.inv[k].quantity

-----------------------------------------------------------------------------
(* Service activities of more than one user.  The page lists the activities *)
(* of get_current_user(); _do_delete takes the record it is handed.          *)

\* _do_delete on a record of the store
DeleteRecord ==
    \E k \in 1..Len(service_activity) :
       /\ _do_delete(service_activity[k])
       /\ UNCHANGED componentVars

\* quantities written in figures
WholeQuantities == {Num(1), Num(2)}

NextOwner ==
    \/ \E u \in Users, p \in Parts, q \in WholeQuantities : InventoryCreate(u, p, q)
    \/ ShowServiceActivityPage
    \/ \E u \in Users \cup {NoUser}, p \in Parts \cup {NoPart}, q \in WholeQuantities :
          ServiceActivityCreate(u, p, q)
    \/ \E i \in 1..MaxSaRows, u \in Users, p \in Parts \cup {NoPart}, q \in WholeQuantities :
          ServiceActivityUpdate(i, u, p, q)
    \/ DeleteRecord

SpecOwner == Init /\ [][NextOwner]_vars

-----------------------------------------------------------------------------
(* The inventory rows a service activity may change: C24 *)

\* the user of the activity the step created or updated (as stored after the
\* step), or deleted (as stored before it)
OwnerOfStep ==
    LET before == {k \in 1..Len(service_activity) : service_activity[k].id = last'.id}
        after == {k \in 1..Len(service_activity') : service_activity'[k].id = last'.id}
    IN IF last'.op = "sa_page_delete"
       THEN service_activity[CHOOSE k \in before : TRUE].user
       ELSE service_activity'[CHOOSE k \in after : TRUE].user

-----------------------------------------------------------------------------
(* Deleting an item from the inventory page: C25 *)

\* C25: Delete on an item of the inventory page removes that one row and
\* leaves every other row in place, rows with the same part number included.
C25_DeleteRemovesOneRow ==
    [][last'.op = "inventory_page_delete" =>
         inventory_items' = DeleteRows(inventory_items, ById(inventory_items, last'.id))]_vars

-----------------------------------------------------------------------------
(* The Activity action of the equipment page: C26 *)

\* C26: after the Activity action on an equipment record with serial number
\* S (no other column filtered), the service-activity page shows exactly the
\* activities whose serial_number is S.
C26_ActivityShowsSerial ==
    (/\ last.op = "_on_action_show_activity"
     /\ DOMAIN proxy.filters = {"serial_number"})
    => \A n \in 1..Len(proxy.items) :
          Visible(n) <=>
             Stringified(proxy.items[n].serial_number) = proxy.filters["serial_number"].text

-----------------------------------------------------------------------------
(* ui/pages/equipment_info_page.py and its filter dialogs: the columns shown *)

\* EquipmentInfoPage.all_columns: the key, two of the data columns, the buttons
all_columns == <<"id", "serial_number", "model", "actions">>

\* the columns of a list of keys, in the order of all_columns
InOrder(keys) ==
    LET F[i \in 0..Len(all_columns)] ==
            IF i = 0 THEN <<>>
            ELSE IF all_columns[i] \in keys THEN Append(F[i - 1], all_columns[i]) ELSE F[i - 1]
    IN F[Len(all_columns)]

Keys(seq) == {seq[i] : i \in 1..Len(seq)}

\* the columns with value checkboxes: every column but "actions"
Filterable == Keys(all_columns) \ {"actions"}

\* what the checkboxes of a column can leave chosen: some values, not all
Chosen == {{"A"}, {"B"}}

\* the filter maps the dialogs can build
ColumnFilterMaps ==
    UNION {[cols -> Chosen] : cols \in SUBSET Filterable}

\* EquipmentInfoPage.__init__: every column visible, then "id" removed
InitColumns ==
    /\ StoreIdle
    /\ duration = NoDuration
    /\ TableIdle
    /\ FormsIdle
    /\ ExpenseIdle
    /\ row_model = NoRowModel
    /\ life = NoLife
    /\ inventory_notes = <<>>
    /\ csv_export = NoExport
    /\ equipment_page = [visible_columns |-> InOrder(Keys(all_columns) \ {"id"}),
                         active_column_filters |-> <<>>]

ColumnsFrame ==
    UNCHANGED <<dbVars, sessionVars, uiVars, authVars, importVars, duration, tableVars,
                formVars, expenseVars, row_model, life, csv_export, inventory_notes,
                stock_before_create>>

\* open_column_filter_popup(col_index), Apply: the column must be visible and
\* not "actions"; none or all chosen removes the column's filter
apply_and_close ==
    \E col_name \in Keys(equipment_page.visible_columns) \ {"actions"},
       chosen \in Chosen \cup {{}, {"A", "B"}} :
       /\ equipment_page' =
             [equipment_page EXCEPT !.active_column_filters =
                 IF chosen = {} \/ chosen = {"A", "B"} THEN Pop(@, col_name)
                 ELSE Put(@, col_name, chosen)]
       /\ last' = Call("apply_and_close", 0)
       /\ ColumnsFrame

\* open_filter_window, Apply: the filters are replaced; the checked columns
\* become the visible ones unless none is checked
apply_all ==
    \E new_filters \in ColumnFilterMaps, checked \in SUBSET Keys(all_columns) :
       /\ equipment_page' =
             [active_column_filters |-> new_filters,
              visible_columns |-> IF checked = {} THEN equipment_page.visible_columns
                                  ELSE InOrder(checked)]
       /\ last' = Call("apply_all", 0)
       /\ ColumnsFrame

\* open_filter_window, Clear All Filters
clear_filters_all ==
    /\ equipment_page' = [active_column_filters |-> <<>>, visible_columns |-> all_columns]
    /\ last' = Call("clear_filters_all", 0)
    /\ ColumnsFrame

\* the toolbar's Clear Filters
equipment_clear_filters ==
    /\ equipment_page' = [active_column_filters |-> <<>>, visible_columns |-> all_columns]
    /\ last' = Call("clear_filters", 0)
    /\ ColumnsFrame

NextColumns ==
    \/ apply_and_close
    \/ apply_all
    \/ clear_filters_all
    \/ equipment_clear_filters

SpecColumns == InitColumns /\ [][NextColumns]_vars

-----------------------------------------------------------------------------
(* The id column of the equipment page: C27 *)

\* C27: "id" is never among the visible columns of the equipment page.
C27_IdHidden == "id" \notin Keys(equipment_page.visible_columns)

-----------------------------------------------------------------------------
(* ui/pages/parts_page.py: the CSV export of the parts orders *)

\* orders in the store when the page opens
MaxStoredOrders == 2

\* PartsOrder.get_all_for_user: SELECT ... FROM parts_orders WHERE user=?
PartsOrder_get_all_for_user(orders, user) ==
    LET F[i \in 0..Len(orders)] ==
            IF i = 0 THEN <<>>
            ELSE IF orders[i].user = user THEN Append(F[i - 1], orders[i]) ELSE F[i - 1]
    IN F[Len(orders)]

\* PartsOrder.delete(id): DELETE FROM parts_orders WHERE id=?
PartsOrder_delete(orders, id) == DeleteRows(orders, ById(orders, id))

\* the PartsOrder object of a row: the attributes the table's columns read
PartsOrder(row) == [id |-> IntValue(row.id), quantity |-> IntValue(row.quantity)]

\* PartsPage.refresh_table: the user's orders go into the model, the filters
\* are applied again
refresh_table(p, orders) ==
    LET mine == PartsOrder_get_all_for_user(orders, get_current_user)
    IN invalidateFilter([p EXCEPT !.items = [i \in 1..Len(mine) |-> PartsOrder(mine[i])]])

\* int(text) of a text of digits
RECURSIVE int(_)
int(text) ==
    IF text = <<>> THEN 0
    ELSE 10 * int(SubSeq(text, 1, Len(text) - 1))
         + (CHOOSE d \in 0..9 : ToString(d) = text[Len(text)])

\* every row of the source model, filtered or not
exported_rows_of_source(p) == [row \in 1..Len(p.items) |-> row]

\* the source rows behind proxy.index(row, col), row in range(proxy.rowCount())
exported_rows(p) == [row \in 1..Len(p.mapping) |-> mapToSource(p, row)]

\* the header line: the labels of the columns but "id" and "actions"
csv_headers == SelectSeq(columns, LAMBDA c : c # "actions")

\* one written line: index.data(Qt.DisplayRole) or "" of the same columns
row_data(item) ==
    LET cols == SelectSeq([i \in 1..Len(columns) |-> i], LAMBDA i : columns[i] # "actions")
    IN [k \in 1..Len(cols) |-> data(item, cols[k])]

\* ids_to_delete: int() of the id cell of every written row
ids_to_delete(p) ==
    LET rows == exported_rows(p)
    IN [k \in 1..Len(rows) |-> int(sval(getattr(p.items[rows[k]], "id")))]

\* the loop "for order_id in ids_to_delete: PartsOrder.delete(order_id)"
RECURSIVE DeleteEach(_, _)
DeleteEach(orders, ids) ==
    IF ids = <<>> THEN orders
    ELSE DeleteEach(PartsOrder_delete(orders, Head(ids)), Tail(ids))

\* the order tables the page can open over: ids in rowid order
OrderTables ==
    UNION {[1..n -> [id : {0}, part_number : {"X1"}, quantity : {1, 2}, user : Users]] :
              n \in 0..MaxStoredOrders}

Numbered(orders) == [i \in 1..Len(orders) |-> [orders[i] EXCEPT !.id = i]]

InitExport ==
    /\ StoreIdle
    /\ duration = NoDuration
    /\ delegate = NoDelegate
    /\ dialog = NoDialog
    /\ ExpenseIdle
    /\ row_model = NoRowModel
    /\ life = NoLife
    /\ inventory_notes = <<>>
    /\ ViewsIdle
    /\ \E orders \in OrderTables :
          /\ parts_orders = Numbered(orders)
          /\ proxy = refresh_table(OpenTable("PartsFilterProxy", <<>>), Numbered(orders))

\* PartsPage.export_to_csv.  confirm: the answer to "Export and Clear?";
\* path: what the file dialog returned ("" when cancelled)
export_to_csv ==
    \E confirm \in BOOLEAN, path \in {"", "parts_orders.csv"} :
       /\ IF confirm /\ path # ""
          THEN LET rows == exported_rows(proxy)
                   left == DeleteEach(parts_orders, ids_to_delete(proxy))
               IN /\ csv_export' =
                        [confirmed |-> TRUE, path |-> path,
                         lines |-> <<csv_headers>>
                                   \o [k \in 1..Len(rows) |-> row_data(proxy.items[rows[k]])]]
                  /\ parts_orders' = left
                  /\ proxy' = refresh_table(proxy, left)
          ELSE /\ csv_export' = [confirmed |-> confirm, path |-> "", lines |-> <<>>]
               /\ UNCHANGED <<parts_orders, proxy>>
       /\ last' = Call("export_to_csv", 0)
       /\ UNCHANGED <<dbVars, sessionVars, uiVars, authVars, importVars, duration, delegate,
                      dialog, expenseVars, row_model, life, equipment_page,
                      inventory_notes, stock_before_create>>

NextExport ==
    \/ open_filter_dialog
    \/ clear_filters
    \/ export_to_csv

SpecExport == InitExport /\ [][NextExport]_vars

-----------------------------------------------------------------------------
(* What a CSV export writes and deletes: C28 *)

\* the ids of the orders the proxy shows
ShownIds == {proxy.items[proxy.mapping[row]].id.int : row \in 1..Len(proxy.mapping)}

\* C28: a confirmed export with a file chosen writes a header and one line
\* per order the proxy shows at that moment and deletes exactly those orders,
\* so the orders the filter hides stay in the store; an export cancelled at
\* the confirmation or at the file dialog writes and deletes nothing.
C28_ExportDeletesVisible ==
    [][last'.op = "export_to_csv" =>
         IF csv_export'.confirmed /\ csv_export'.path # ""
         THEN /\ Len(csv_export'.lines) = 1 + Len(proxy.mapping)
              /\ parts_orders' =
                    DeleteRows(parts_orders,
                               {k \in 1..Len(parts_orders) : parts_orders[k].id \in ShownIds})
         ELSE /\ csv_export'.lines = <<>>
              /\ parts_orders' = parts_orders]_vars

\* an export under the quantity filter "1" wrote the header and the one order
\* shown; the order the filter hid (quantity 2) is the one left in the store
C28_Witness ==
    /\ last.op = "export_to_csv"
    /\ csv_export.confirmed
    /\ Len(csv_export.lines) = 2
    /\ csv_export.lines[2][3] = <<"1">>
    /\ DOMAIN proxy.column_filters = {3}
    /\ Len(parts_orders) = 1
    /\ parts_orders[1].quantity = 2
    /\ parts_orders[1].user = DefaultUser

-----------------------------------------------------------------------------
(* The notes of an inventory item under the inventory form
   (ui/forms/inventory_form.py, core/models/inventory_model.py) *)

\* the notes a stored row can carry (the Excel import writes the column)
NoteTexts == {"", "bin 4"}

\* kw.get(key): None when the keyword was not passed
kw_get(kw, key) ==
    IF key \in DOMAIN kw THEN [none |-> FALSE, text |-> kw[key]]
    ELSE [none |-> TRUE, text |-> ""]

\* safe_str(value): "" for None, the text otherwise (the texts of the model
\* carry no outer white space)
safe_str(value) == IF value.none THEN "" ELSE value.text

\* the dict on_save_clicked collects from the form's fields: no "notes" key
FormData(p, q) == [part_number |-> p, quantity |-> q, user |-> get_current_user]

\* the column notes of InventoryItem.create(**kw)
created_notes(notes, kw) == Append(notes, safe_str(kw_get(kw, "notes")))

\* the column notes of InventoryItem.update(item_id, **kw):
\* SET ..., notes=safe_str(kw.get("notes")), ... WHERE id=?
updated_notes(notes, item_id, kw) ==
    [id \in DOMAIN notes |->
        IF id = item_id THEN safe_str(kw_get(kw, "notes")) ELSE notes[id]]

\* the inventory the database can hold when the program starts: rows of the
\* session's user and of another one, ids in rowid order
NotedInventories ==
    UNION {[1..n -> [id : {0}, part_number : {"X1"}, quantity : {1, 2},
                     user : {DefaultUser, "tech1"}]] : n \in 1..MaxInvRows}

\* the main window is up over a stored inventory
InitNotes ==
    /\ \E inv \in NotedInventories :
          inventory_items = [i \in 1..Len(inv) |-> [inv[i] EXCEPT !.id = i]]
    /\ inventory_notes \in [1..Len(inventory_items) -> NoteTexts]
    /\ service_activity = <<>>
    /\ inv_autoinc = Len(inventory_items)
    /\ sa_autoinc = 0
    /\ current_user = NoUser
    /\ _current_user = "tech1"
    /\ inventory_page_items = InventoryItem_get_all_for_user(inventory_items, get_current_user)
    /\ sa_page = [created |-> FALSE, items |-> <<>>]
    /\ toner_widget_items = InventoryItem_get_all_for_user(inventory_items, get_current_user)
    /\ recent_activity_items = <<>>
    /\ last = NoCall
    /\ stock_before_create = NoGhost
    /\ equipment_info = <<>>
    /\ users = <<UserRow(1, "tech1", Argon2Hash(CurrentParams, "s1", "pw1"))>>
    /\ auth = NoAuth
    /\ workbook = NoSheet
    /\ imported = NoImport
    /\ duration = NoDuration
    /\ TableIdle
    /\ FormsIdle
    /\ ExpenseIdle
    /\ row_model = NoRowModel
    /\ life = NoLife
    /\ ViewsIdle

NotesFrame ==
    UNCHANGED <<duration, tableVars, formVars, expenseVars, row_model, equipment_page,
                csv_export, life>>

\* InventoryForm.on_save_clicked, no item
SaveNewItem ==
    \E p \in Parts, q \in WholeQuantities :
       /\ InventoryFormAddStore(p, q)
       /\ inventory_notes' = created_notes(inventory_notes, FormData(p, q))
       /\ NotesFrame

\* InventoryForm.on_save_clicked on an item of the page
SaveEditedItem ==
    \E i \in 1..MaxInvRows, p \in Parts, q \in WholeQuantities :
       /\ InventoryFormEditStore(i, p, q)
       /\ inventory_notes' =
             updated_notes(inventory_notes, inventory_page_items[i].id, FormData(p, q))
       /\ NotesFrame

NextNotes ==
    \/ SaveNewItem
    \/ SaveEditedItem

SpecNotes == InitNotes /\ [][NextNotes]_vars

-----------------------------------------------------------------------------
(* What saving an edit leaves alone: C30 *)

\* C30: saving an edit of an inventory item through the inventory form
\* leaves the item's notes, its owner and every other inventory row (notes
\* included) as they were.
C30_EditKeepsNotes ==
    [][last'.op = "inventory_form_edit" =>
         /\ inventory_notes' = inventory_notes
         /\ Len(inventory_items') = Len(inventory_items)
         /\ \A k \in 1..Len(inventory_items) :
               /\ inventory_items'[k].id = inventory_items[k].id
               /\ inventory_items'[k].user = inventory_items[k].user
               /\ inventory_items[k].id # last'.id =>
                     inventory_items'[k] = inventory_items[k]]_vars

-----------------------------------------------------------------------------
(* The duration between arrival and departure: C18, C19 *)

\* the date and the time are texts one of the accepted patterns reads
ReadableText(d, t) ==
    d.fmt = "%Y-%m-%d" /\ t.fmt \in {"%I:%M %p", "%H:%M", "%H:%M:%S"}

\* the instant the date and the time stand for, in seconds after 2024-01-01 00:00
Instant(d, t) == (d.day - 1) * 86400 + t.denotes

\* "<h>hr(s), <m>min(s)"
DurationTexts(h, m) ==
    {ToString(h) \o hr \o ", " \o ToString(m) \o min :
        hr \in {"hr", "hrs"}, min \in {"min", "mins"}}

\* C18: for arrival and departure texts that parse under an accepted pattern,
\* the departure not before the arrival, compute_duration returns
\* "<h>hr(s), <m>min(s)" with h the whole hours and m (0 <= m < 60) the whole
\* minutes left between the two instants.
C18_DurationIsHoursAndMinutes ==
    (/\ duration.called
     /\ ReadableText(duration.arr_date, duration.arr_time)
     /\ ReadableText(duration.dep_date, duration.dep_time)
     /\ Instant(duration.dep_date, duration.dep_time)
            >= Instant(duration.arr_date, duration.arr_time))
    => LET between == Instant(duration.dep_date, duration.dep_time)
                          - Instant(duration.arr_date, duration.arr_time)
       IN \E h \in 0..(MaxDay * 24), m \in 0..59 :
             /\ h * 3600 + m * 60 <= between
             /\ between < h * 3600 + m * 60 + 60
             /\ duration.result \in DurationTexts(h, m)

\* 9:00 AM to 5:30 PM on one day gave "8hrs, 30mins"
C18_Witness ==
    /\ duration.called
    /\ duration.arr_date = DateText("%Y-%m-%d", 1)
    /\ duration.arr_time = Time12(9, 0)
    /\ duration.dep_date = DateText("%Y-%m-%d", 1)
    /\ duration.dep_time = Time12(17, 30)
    /\ duration.result = "8hrs, 30mins"

\* C19: when the arrival or the departure does not parse under any accepted
\* pattern, compute_duration returns exactly "0hr, 0min" (it returns: every
\* call ends with a text).
C19_UnparseableGivesZero ==
    (/\ duration.called
     /\ \/ /\ ~ReadableText(duration.arr_date, duration.arr_time)
           /\ duration.arr_time.fmt # "datetime"
        \/ /\ ~ReadableText(duration.dep_date, duration.dep_time)
           /\ duration.dep_time.fmt # "datetime")
    => duration.result = "0hr, 0min"

\* a departure time in words, after a readable arrival, gave "0hr, 0min"
C19_Witness ==
    /\ duration.called
    /\ ReadableText(duration.arr_date, duration.arr_time)
    /\ duration.dep_date = DateText("%Y-%m-%d", 1)
    /\ duration.dep_time = TimeWords
    /\ duration.result = "0hr, 0min"

-----------------------------------------------------------------------------
(* The sign of the duration: C29 *)

\* the texts whose hours and minutes are both >= 0
NonNegativeTexts == {FormatDuration(h, m) : h \in 0..(MaxDay * 24), m \in 0..59}

\* C29: compute_duration never reports a negative duration: whatever the
\* inputs, a departure earlier than the arrival included, the hours and the
\* minutes of the returned text are both >= 0.
C29_DurationNotNegative ==
    duration.called => duration.result \in NonNegativeTexts \cup {ZeroDuration}

-----------------------------------------------------------------------------
(* Deleting a service activity, and the pages after a change: C2, C6 *)

\* C2: deleting a service activity that consumed a part (the user held exactly
\* one inventory row of that part, with stock to cover any quantity the form
\* can name) puts the stock of that part back to what it was before the
\* activity was created, when nothing else happened in between.
C2_DeleteRestoresStock ==
    (/\ last.op = "sa_page_delete"
     /\ stock_before_create.id = last.id
     /\ stock_before_create.part # NoPart
     /\ Cardinality(Matching(stock_before_create.inv, stock_before_create.part,
                             get_current_user)) = 1
     /\ \A k \in Matching(stock_before_create.inv, stock_before_create.part,
                          get_current_user) :
            stock_before_create.inv[k].quantity = MaxStock)
    => inventory_items = stock_before_create.inv

\* C6: after every store mutation the subscribed pages hold the store's rows:
\* the inventory page and the dashboard's toner widget the user's inventory
\* rows, the service-activity page (once built) and the dashboard's recent
\* activity the user's service activities.
C6_PagesFollowStore ==
    /\ inventory_page_items =
           InventoryItem_get_all_for_user(inventory_items, get_current_user)
    /\ toner_widget_items =
           InventoryItem_get_all_for_user(inventory_items, get_current_user)
    /\ recent_activity_items =
           Head5(ServiceActivity_get_all_for_user(service_activity, get_current_user))
    /\ sa_page.created =>
           sa_page.items =
               ServiceActivity_get_all_for_user(service_activity, get_current_user)

-----------------------------------------------------------------------------
(* Stock adjustment by a service activity: C1, C3, C4 *)

\* the row a ServiceActivity.create step inserted
NewActivity == service_activity'[Len(service_activity')]

\* C1: when a service activity is created for user u with part_replaced = p
\* and quantity k >= 1, every inventory item of u with part number p and
\* quantity q >= k has quantity q - k afterwards.
C1_CreateDecrementsStock ==
    [][sa_autoinc' = sa_autoinc + 1 =>
        (NewActivity.quantity >= 1 =>
            \A i \in 1..Len(inventory_items) :
                (/\ inventory_items[i].part_number = NewActivity.part_replaced
                 /\ inventory_items[i].user = NewActivity.user
                 /\ inventory_items[i].quantity >= NewActivity.quantity)
                => inventory_items'[i].quantity =
                       inventory_items[i].quantity - NewActivity.quantity)]_vars

\* C3: every inventory item's quantity is >= 0 in every reachable state.
C3_QuantityNonNegative ==
    \A i \in 1..Len(inventory_items) : inventory_items[i].quantity >= 0

\* the row a ServiceActivity.update step rewrote, before and after the step
OldActivity ==
    service_activity[CHOOSE i \in 1..Len(service_activity) :
                         service_activity[i].id = last'.id]

UpdatedActivity ==
    service_activity'[CHOOSE i \in 1..Len(service_activity') :
                          service_activity'[i].id = last'.id]

\* The stock an inventory row holding q must hold after a service activity
\* went from (old_part, k1) to (new_part, k2), by the rule "give the old
\* usage back, take the new usage, a decrement never going below 0".
AdjustedQuantity(row, old_part, k1, new_part, k2, user) ==
    LET q == row.quantity
        mine(part) == part # NoPart /\ row.part_number = part /\ row.user = user
    IN  IF old_part = new_part
        THEN IF mine(new_part)
             THEN IF k1 - k2 < 0 THEN Max(q + (k1 - k2), 0) ELSE q + (k1 - k2)
             ELSE q
        ELSE IF mine(old_part) THEN q + k1
        ELSE IF mine(new_part) THEN Max(q - k2, 0)
        ELSE q

\* C4: updating a service activity reverses the old usage and applies the new
\* one: same part, k1 -> k2: the part's stock changes by k1 - k2; part A -> B:
\* A's stock grows by the old quantity and B's shrinks by the new quantity
\* (decrements clamped at 0); no other inventory row changes.
C4_UpdateAdjustsStock ==
    [][last'.op = "sa_update" =>
        /\ Len(inventory_items') = Len(inventory_items)
        /\ \A i \in 1..Len(inventory_items) :
              inventory_items'[i] =
                  [inventory_items[i] EXCEPT !.quantity =
                      AdjustedQuantity(inventory_items[i], OldActivity.part_replaced,
                                       OldActivity.quantity,
                                       UpdatedActivity.part_replaced,
                                       UpdatedActivity.quantity,
                                       UpdatedActivity.user)]]_vars

\* C4 witness: an update moved a service activity from part X1 to part X2
\* (quantity 2); the user's X1 row stands restocked at 2 and the X2 row at 0.
C4_Witness ==
    /\ last.op = "sa_update"
    /\ last.old_part = "X1"
    /\ \E a \in 1..Len(service_activity) :
          /\ service_activity[a].id = last.id
          /\ service_activity[a].part_replaced = "X2"
          /\ service_activity[a].quantity = 2
          /\ \E i, j \in 1..Len(inventory_items) :
                /\ inventory_items[i].part_number = "X1"
                /\ inventory_items[i].user = service_activity[a].user
                /\ inventory_items[i].quantity = 2
                /\ inventory_items[j].part_number = "X2"
                /\ inventory_items[j].user = service_activity[a].user
                /\ inventory_items[j].quantity = 0

====
